---- MODULE Spec2Model ----
(***************************************************************************)
(* ERP-to-catalog synchronization engine of crystal-bayi-backend.          *)
(*                                                                         *)
(*   services/productSyncService.js  fullSync, deltaSync, upsertProducts,  *)
(*                                   syncCategories, fetchAllErpProducts   *)
(*   services/soapService.js         createClient, callSoapMethod and the  *)
(*                                   fetch wrappers                        *)
(*   services/currencyService.js     fetchRatesFromTCMB, getRate           *)
(*                                                                         *)
(* Numbers.  Amounts are fixed point: a price or a balance is an integer   *)
(* number of mils (1/1000), a rate an integer number of hundredths, and    *)
(* the product of the two an integer number of 1/100000.  The arithmetic   *)
(* is exact, so the binary rounding of IEEE doubles is not modelled.       *)
(* Strings the code edits (the currency code) are sequences of one-letter  *)
(* strings; strings it only copies are TLA+ strings.                       *)
(***************************************************************************)
EXTENDS Integers, Sequences, FiniteSets, TLC

VARIABLES
  \* ---- the upstream ERP and the clock (environment)
  erpIko,          \* rows the ERP now answers to ikoStoklist
  erpTree,         \* the category tree the ERP now answers with
  now,             \* the clock, in hours
  \* ---- persisted stores
  products,        \* Product collection: stkno -> document
  categories,      \* Category collection: grpkod -> document
  cursor,          \* SyncCursor documents with key 'products' (a sequence of 0 or 1)
  \* ---- process-local state of the services
  rates,           \* currencyService.rates
  \* ---- one run of fullSync / deltaSync
  pc,              \* where the run stands
  mode,            \* "full" or "delta"
  all,             \* fetchAllErpProducts' result
  usdRate, eurRate,
  bi,              \* upsertProducts' loop variable i (0-based offset into all)
  totalInserted, totalUpdated,
  categoryResult,
  crawl,           \* syncCategories' locals
  result,          \* what the run returned or threw
  runs,            \* number of runs triggered so far
  faultsLeft,      \* number of failures the environment may still inject
  \* ---- history of the current run, read only by the properties
  hist,
  \* ---- callSoapMethod
  client, soap,
  \* ---- price conversion on its own
  px,
  \* ---- syncProductImages
  img,
  \* ---- overlapping runs writing the Product collection
  ov,
  \* ---- a caller of currencyService.getRate
  rq,
  \* ---- a caller of one of soapService's fetch wrappers
  wr,
  \* ---- fullSync and deltaSync side by side on the same inputs
  tw

syncVars == <<erpIko, erpTree, now, products, categories, cursor, rates, pc, mode, all,
              usdRate, eurRate, bi, totalInserted, totalUpdated, categoryResult, crawl,
              result, runs, faultsLeft, hist>>
soapVars == <<client, soap>>
priceVars == <<px>>
imageVars == <<img>>
overlapVars == <<ov>>
rateVars == <<rq>>
wrapVars == <<wr>>
twinVars == <<tw>>
vars == <<syncVars, soapVars, priceVars, imageVars, overlapVars, rateVars, wrapVars, twinVars>>

----------------------------------------------------------------------------
(* Bounds of the model *)

\* number of clock ticks explored
MaxClock == 1
\* number of runs explored
MaxRuns == 2
\* longest row list a fetch wrapper is given
MaxRows == 2
\* hours explored by the callers of getRate
MaxRateHours == 25
\* number of runs of the image job explored
MaxImageRuns == 1
\* number of failures injected in the behaviours of the category crawl on its own
MaxCatFaults == 2
\* number of failures (a remote call or a store write that throws, a rate payload
\* that is not complete) injected in one behaviour
MaxFaults == 1
\* upsertProducts' BATCH_SIZE, 500 in the source, scaled down so that a catalog of
\* three products spans two batches
BATCH_SIZE == 2

(* Program constants *)

\* price tiers fiyat1..fiyat15
NumTiers == 15
\* callSoapMethod's default retries
DefaultRetries == 3
\* currencyService.cacheTimeout, in hours (24 * 60 * 60 * 1000 ms)
cacheTimeout == 24
\* fallback rates, in hundredths (33.50 and 36.20)
FallbackUsd == 3350
FallbackEur == 3620
\* p.kdv || 18
DefaultKdv == 18

Tiers == 1..NumTiers

----------------------------------------------------------------------------
(* JavaScript values *)

\* an optional number: undefined, or a number
Undef == [def |-> FALSE, val |-> 0]
Num(n) == [def |-> TRUE, val |-> n]
\* x ?? d
Nullish(x, d) == IF x.def THEN x.val ELSE d
\* x || d
OrElse(x, d) == IF x.def /\ x.val # 0 THEN x.val ELSE d

\* an optional edited string: undefined, or a sequence of letters
UndefStr == <<"undefined">>
IsUndefStr(s) == s = UndefStr

Blank(c) == c \in {" ", "\t"}

RECURSIVE TrimLeft(_)
TrimLeft(s) == IF s # <<>> /\ Blank(Head(s)) THEN TrimLeft(Tail(s)) ELSE s

RECURSIVE TrimRight(_)
TrimRight(s) ==
  IF s # <<>> /\ Blank(s[Len(s)]) THEN TrimRight(SubSeq(s, 1, Len(s) - 1)) ELSE s

\* String.prototype.trim
Trim(s) == TrimRight(TrimLeft(s))

UpperOf(c) ==
  CASE c = "u" -> "U" [] c = "s" -> "S" [] c = "d" -> "D" [] c = "e" -> "E"
    [] c = "r" -> "R" [] c = "t" -> "T" [] c = "y" -> "Y" [] c = "n" -> "N"
    [] c = "l" -> "L" [] c = "g" -> "G" [] c = "b" -> "B" [] c = "p" -> "P"
    [] OTHER -> c

\* String.prototype.toUpperCase
\* a code left in the case it came in
ToUpperCase_Same(s) == s

ToUpperCase(s) == [k \in 1..Len(s) |-> UpperOf(s[k])]

USD == <<"U", "S", "D">>
EUR == <<"E", "U", "R">>
TRY == <<"T", "R", "Y">>

----------------------------------------------------------------------------
(* The upstream ERP: raw rows *)

Stknos == {"S1", "S2", "S3", "S4", "S5"}

\* a TTStoklarRow: fiyat is the function tier -> fiyat<tier>
Row(stkno, stokadi, grupadi, cinsi, fiyat, bakiye, bky) ==
  [stkno |-> stkno, stokadi |-> stokadi, grupadi |-> grupadi, cinsi |-> cinsi,
   fiyat |-> fiyat, bakiye |-> bakiye, bky |-> bky, stok |-> Undef,
   birim |-> "", kdv |-> Undef, uruntipi |-> "", fgrp |-> "G1", fagrp |-> "", fatgrp |-> ""]

\* tier 1 is a, tier 2 is b, the other tiers are absent from the row
Fiyat(a, b) == [j \in Tiers |-> IF j = 1 THEN a ELSE IF j = 2 THEN b ELSE Undef]

\* 10.00 "usd " with balance 5
RowS1 == Row("S1", "Vazo", "Cam", <<"u", "s", "d", " ">>, Fiyat(Num(10000), Num(2500)), Num(5000), Undef)
\* the same product after a price change
RowS1b == Row("S1", "Vazo", "Cam", <<"u", "s", "d", " ">>, Fiyat(Num(12000), Num(2500)), Num(5000), Undef)
\* 1.005 TRY, balance under bky
RowS2 == Row("S2", "Tabak", "Porselen", TRY, Fiyat(Num(1005), Undef), Undef, Num(3000))
\* 2.00 EUR
RowS3 == Row("S3", "Bardak", "Cam", EUR, Fiyat(Num(2000), Num(0)), Num(0), Undef)

\* 4.50 TRY and 7.25 USD
RowS4 == Row("S4", "Kase", "Cam", TRY, Fiyat(Num(4500), Undef), Num(2000), Undef)
RowS5 == Row("S5", "Surahi", "Cam", USD, Fiyat(Num(7250), Undef), Num(1000), Undef)
\* a catalog that spans three batches
LongCatalog == <<RowS1, RowS2, RowS3, RowS4, RowS5>>

\* what ikoStoklist may hold: stock numbers are unique within a catalog
Catalogs == { <<RowS1, RowS2, RowS3>>, <<RowS1b>>, <<>> }

\* what slStoklist (the legacy single-price listing) answers
ErpLegacyRows == <<RowS2>>

----------------------------------------------------------------------------
(* Remote Catalog Client: result envelopes and the fetch wrappers *)

\* The value callSoapMethod returns, by shape:
\*   "null"    no result at all
\*   "empty"   a result with no first element
\*   "nowrap"  result[0] without the wrapper field or without its Row field
\*   "one"     the Row field is a single object: rows holds that one object
\*   "many"    the Row field is an array: rows
Envelope(tag, rows) == [tag |-> tag, rows |-> rows]

\* the envelopes by which the remote service can hand over `rows`
EnvelopesOf(rows) ==
  IF rows = <<>>
    THEN {Envelope("null", <<>>), Envelope("empty", <<>>), Envelope("nowrap", <<>>),
          Envelope("many", <<>>)}
  ELSE IF Len(rows) = 1 THEN {Envelope("one", rows), Envelope("many", rows)}
  ELSE {Envelope("many", rows)}

\* what a wrapper hands to its caller
Returned(rows) == [threw |-> FALSE, rows |-> rows]
Thrown == [threw |-> TRUE, rows |-> <<>>]

\* result[0]?.Wrapper?.WrapperRow || []
RowField(env) == IF env.tag \in {"empty", "nowrap"} THEN <<>> ELSE env.rows
\* Array.isArray(x) ? x : [x]
AsArray(env) == IF env.tag = "one" THEN <<Head(env.rows)>> ELSE RowField(env)

\* getProductsWithAllPrices: soapOk is whether callSoapMethod('ikoStoklist')
\* returned, env what it returned
getProductsWithAllPrices(soapOk, env) ==
  IF ~soapOk THEN Thrown
  ELSE IF env.tag \in {"null", "empty"} THEN Thrown
  ELSE LET count == IF env.tag = "one" THEN 1 ELSE Len(RowField(env))
       IN  IF count = 0 THEN Thrown ELSE Returned(AsArray(env))

\* getProducts (slStoklist)
getProducts(soapOk, env) ==
  IF ~soapOk THEN Thrown
  ELSE IF env.tag \in {"null", "empty"} THEN Returned(<<>>)
  ELSE Returned(AsArray(env))

\* getProductGroups, getSubGroups, getSubGroups2: result[0] of no result throws
\* inside the wrapper's try, which rethrows
getGroupRows(soapOk, env) ==
  IF ~soapOk THEN Thrown
  ELSE IF env.tag = "null" THEN Thrown
  ELSE Returned(AsArray(env))
getProductGroups(soapOk, env) == getGroupRows(soapOk, env)
getSubGroups(soapOk, env) == getGroupRows(soapOk, env)
getSubGroups2(soapOk, env) == getGroupRows(soapOk, env)

\* fetchAllErpProducts: [threw, rows, legacyCalled]
fetchAllErpProducts(ikoOk, ikoEnv, legacyOk, legacyEnv) ==
  LET ikoProducts == getProductsWithAllPrices(ikoOk, ikoEnv) IN
  IF ikoProducts.threw THEN [threw |-> TRUE, rows |-> <<>>, legacyCalled |-> FALSE]
  ELSE IF Len(ikoProducts.rows) > 0
    THEN [threw |-> FALSE, rows |-> ikoProducts.rows, legacyCalled |-> FALSE]
  ELSE LET list == getProducts(legacyOk, legacyEnv) IN
       [threw |-> list.threw, rows |-> list.rows, legacyCalled |-> TRUE]

----------------------------------------------------------------------------
(* Exchange Rate Provider *)

\* a rate of the cache: 0 stands for null
NoRates == [USD |-> 0, EUR |-> 0, lastUpdate |-> 0]

\* what the request to the rate source can end in: a failure, or a payload in
\* which the USD and the EUR sell rate are each present or not (0: not found)
TcmbUsd == FallbackUsd + 50
TcmbEur == FallbackEur + 80
TcmbOutcomes ==
  { [ok |-> FALSE, usd |-> 0, eur |-> 0] } \cup
  { [ok |-> TRUE, usd |-> u, eur |-> e] : u \in {0, TcmbUsd}, e \in {0, TcmbEur} }

\* fetchRatesFromTCMB: the cache after the refresh
fetchRatesFromTCMB(r, o, t) ==
  IF o.ok
    THEN [USD |-> IF o.usd # 0 THEN o.usd ELSE r.USD,
          EUR |-> IF o.eur # 0 THEN o.eur ELSE r.EUR,
          lastUpdate |-> t]
  ELSE IF r.USD = 0 \/ r.EUR = 0
    THEN [USD |-> FallbackUsd, EUR |-> FallbackEur, lastUpdate |-> t]
  ELSE r

\* a refresh that reports success whatever happened
fetchRatesFromTCMBReturn_True(o) == TRUE

\* what fetchRatesFromTCMB returns: true at the end of the try, false from the catch
fetchRatesFromTCMBReturn(o) == o.ok

RateOf(r, c) == IF c = USD THEN r.USD ELSE r.EUR

\* a refresh as soon as the cache is 24 hours old
NeedsRefresh_AtTimeout(r, c, t) == RateOf(r, c) = 0 \/ (t - r.lastUpdate) >= cacheTimeout

\* whether getRate(c) refreshes
NeedsRefresh(r, c, t) == RateOf(r, c) = 0 \/ (t - r.lastUpdate) > cacheTimeout

\* getRate: [rates, rate], the rate in hundredths (1 is 100)
getRate(r, c0, o, t) ==
  LET c == ToUpperCase(c0) IN
  IF c \notin {USD, EUR} THEN [rates |-> r, rate |-> 100, fetched |-> FALSE]
  ELSE LET r2 == IF NeedsRefresh(r, c, t) THEN fetchRatesFromTCMB(r, o, t) ELSE r IN
       [rates |-> r2,
        rate |-> IF RateOf(r2, c) # 0 THEN RateOf(r2, c) ELSE 100,
        fetched |-> NeedsRefresh(r, c, t)]

----------------------------------------------------------------------------
(* Catalog Reconciler: normalisation of one product *)

\* checksumOf: the digest is taken as injective, so it is the digested fields
checksumOf(p) ==
  [stkno |-> p.stkno, stokadi |-> p.stokadi,
   prices |-> [j \in Tiers |-> OrElse(p.fiyat[j], 0)],
   bakiye |-> p.bakiye, grupadi |-> p.grupadi,
   cinsi |-> IF IsUndefStr(p.cinsi) THEN <<>> ELSE p.cinsi]

\* the currency code without the default
CurrencyOf_NoDefault(p) ==
  IF IsUndefStr(p.cinsi) THEN <<>> ELSE ToUpperCase(Trim(p.cinsi))

\* p.cinsi?.trim().toUpperCase() || 'TRY'
CurrencyOf(p) ==
  LET c == IF IsUndefStr(p.cinsi) THEN <<>> ELSE ToUpperCase(Trim(p.cinsi))
  IN  IF c = <<>> THEN TRY ELSE c

\* convertedPrice, in 1/100000: the original, times the rate for USD and EUR
ConvertedPrice(originalPrice, currency, usd, eur) ==
  IF currency = USD THEN originalPrice * usd
  ELSE IF currency = EUR THEN originalPrice * eur
  ELSE originalPrice * 100

\* a cut to two decimals
Round2_Truncate(x) == (x \div 1000) * 10

\* Math.round(x * 100) / 100 for x in 1/100000, the result in mils
Round2(x) == ((x + 500) \div 1000) * 10

StrOr(a, b) == IF a # "" THEN a ELSE b

\* the document upsertProducts' map builds for a raw row
BuildDoc(p, usd, eur, t) ==
  LET currency == CurrencyOf(p) IN
  [stkno |-> p.stkno, stokadi |-> p.stokadi, grupadi |-> p.grupadi,
   priceList |-> [j \in Tiers |->
                    Round2(ConvertedPrice(Nullish(p.fiyat[j], 0), currency, usd, eur))],
   originalPriceList |-> [j \in Tiers |-> Nullish(p.fiyat[j], 0)],
   cinsi |-> currency,
   bakiye |-> IF p.bakiye.def THEN p.bakiye.val
              ELSE IF p.bky.def THEN p.bky.val ELSE Nullish(p.stok, 0),
   birim |-> StrOr(p.birim, "ADET"),
   kdv |-> OrElse(p.kdv, DefaultKdv),
   uruntipi |-> p.uruntipi, fgrp |-> p.fgrp, fagrp |-> p.fagrp, fatgrp |-> p.fatgrp,
   isActive |-> TRUE,
   checksum |-> checksumOf(p),
   syncedAt |-> t,
   raw |-> p]

----------------------------------------------------------------------------
(* Product store: bulkWrite of upserts *)

\* image fields: "" stands for null
NoImage == [imageUrl |-> "", imageSource |-> "", imageSyncedAt |-> 0]

\* an upsert that writes the null image fields every time
UpsertOne_ResetImage(store, doc, t) ==
  [s \in DOMAIN store \cup {doc.stkno} |->
     IF s = doc.stkno THEN [doc |-> doc, image |-> NoImage, updatedAt |-> t] ELSE store[s]]

\* an upsert that leaves the active flag of an existing document as it is
UpsertOne_KeepFlag(store, doc, t) ==
  LET old == IF doc.stkno \in DOMAIN store THEN store[doc.stkno].image ELSE NoImage
      flag == IF doc.stkno \in DOMAIN store THEN store[doc.stkno].doc.isActive ELSE TRUE
      new == [doc |-> [doc EXCEPT !.isActive = flag], image |-> old, updatedAt |-> t]
  IN  [s \in DOMAIN store \cup {doc.stkno} |-> IF s = doc.stkno THEN new ELSE store[s]]

\* a write that leaves the written document alone in the collection
UpsertOne_Replace(store, doc, t) ==
  [s \in {doc.stkno} |-> [doc |-> doc, image |-> NoImage, updatedAt |-> t]]

\* updateOne {filter: {stkno}, update: {$set: doc, $setOnInsert: images}, upsert: true}
\* on the collection `store`, at time t (the schema's timestamps set updatedAt)
UpsertOne(store, doc, t) ==
  LET old == IF doc.stkno \in DOMAIN store THEN store[doc.stkno].image ELSE NoImage
      new == [doc |-> doc, image |-> old, updatedAt |-> t]
  IN  [s \in DOMAIN store \cup {doc.stkno} |-> IF s = doc.stkno THEN new ELSE store[s]]

RECURSIVE UpsertAll(_, _, _)
UpsertAll(store, docs, t) ==
  IF docs = <<>> THEN store ELSE UpsertAll(UpsertOne(store, Head(docs), t), Tail(docs), t)

\* the documents of `docs` at the positions in `keep`, in order
RECURSIVE Pick(_, _, _)
Pick(docs, keep, k) ==
  IF k > Len(docs) THEN <<>>
  ELSE (IF k \in keep THEN <<docs[k]>> ELSE <<>>) \o Pick(docs, keep, k + 1)

\* a count of every operation of the batch as an insert
UpsertedCount_EveryOp(store, docs) == Len(docs)

\* upsertedCount and modifiedCount of a bulkWrite of docs on store
UpsertedCount(store, docs) ==
  Cardinality({k \in 1..Len(docs) : docs[k].stkno \notin DOMAIN store})
ModifiedCount(store, docs, t) ==
  Cardinality({k \in 1..Len(docs) :
     /\ docs[k].stkno \in DOMAIN store
     /\ UpsertOne(store, docs[k], t)[docs[k].stkno] # store[docs[k].stkno]})

----------------------------------------------------------------------------
(* The upstream ERP: the category tree *)

\* a row of urungruplari / altgrup / altgrup2; "" stands for an absent field
CatRow(grpkod, grpadi, alt, altadi, alt2, altadi2) ==
  [grpkod |-> grpkod, grpadi |-> grpadi, altgrpkod |-> alt, altgrpadi |-> altadi,
   altgrpkod2 |-> alt2, altgrpadi2 |-> altadi2]
GroupRow(code) == CatRow(code, code, "", "", "", "")
\* a subgroup row naming itself by altgrpkod, and one that only has grpkod
SubRow(code) == CatRow("", "", code, code, "", "")
SubRowPlain(code) == CatRow(code, code, "", "", "", "")
Sub2Row(code) == CatRow("", "", "", "", code, code)

\* groups: the level-1 rows; subs, subs2: the rows answered for a parent code
SmallTree ==
  [groups |-> <<GroupRow("A")>>,
   subs   |-> [c \in {"A"} |-> <<SubRow("A1")>>],
   subs2  |-> [c \in {} |-> <<>>]]
BigTree ==
  [groups |-> <<GroupRow("A"), GroupRow("B")>>,
   subs   |-> [c \in {"A", "B"} |->
                 IF c = "A" THEN <<SubRow("A1"), SubRowPlain("A2")>> ELSE <<SubRow("B1")>>],
   subs2  |-> [c \in {"A1", "A2", "B1"} |->
                 IF c = "A1" THEN <<Sub2Row("A1x")>>
                 ELSE IF c = "A2" THEN <<Sub2Row("A2x")>> ELSE <<Sub2Row("B1x")>>]]
EmptyTree ==
  [groups |-> <<>>, subs |-> [c \in {} |-> <<>>], subs2 |-> [c \in {} |-> <<>>]]

SubsOf(tree, code) == IF code \in DOMAIN tree.subs THEN tree.subs[code] ELSE <<>>
Subs2Of(tree, code) == IF code \in DOMAIN tree.subs2 THEN tree.subs2[code] ELSE <<>>

----------------------------------------------------------------------------
(* Catalog Reconciler: the upserts of the category crawl *)

NullParent == "<null>"

CatDoc(code, name, level, parent, row, t) ==
  [grpkod |-> code, grpadi |-> name, level |-> level, parentId |-> parent,
   isActive |-> TRUE, syncedAt |-> t, raw |-> row]

\* subGroup.altgrpkod || subGroup.grpkod
SubCode(row) == StrOr(row.altgrpkod, row.grpkod)
Sub2Code(row) == StrOr(row.altgrpkod2, row.grpkod)

Level1Op(group, t) == CatDoc(group.grpkod, group.grpadi, 1, NullParent, group, t)
Level2Op(group, sub, t) ==
  CatDoc(SubCode(sub), StrOr(sub.altgrpadi, sub.grpadi), 2, group.grpkod, sub, t)
\* a level-3 upsert that names its parent by altgrpkod alone
Level3Op_AltOnly(sub, sub2, t) ==
  CatDoc(Sub2Code(sub2), StrOr(sub2.altgrpadi2, sub2.grpadi), 3, sub.altgrpkod, sub2, t)
Level3Op(sub, sub2, t) ==
  CatDoc(Sub2Code(sub2), StrOr(sub2.altgrpadi2, sub2.grpadi), 3, SubCode(sub), sub2, t)

\* Category.bulkWrite of upserts ($set only)
CatUpsertOne(store, doc, t) ==
  [c \in DOMAIN store \cup {doc.grpkod} |->
     IF c = doc.grpkod THEN [doc |-> doc, updatedAt |-> t] ELSE store[c]]

RECURSIVE CatUpsertAll(_, _, _)
CatUpsertAll(store, docs, t) ==
  IF docs = <<>> THEN store
  ELSE CatUpsertAll(CatUpsertOne(store, Head(docs), t), Tail(docs), t)

CatUpsertedCount(store, docs) ==
  Cardinality({d.grpkod : d \in {docs[k] : k \in 1..Len(docs)}} \ DOMAIN store)
CatModifiedCount(store, docs, t) ==
  Cardinality({c \in DOMAIN store :
     /\ \E k \in 1..Len(docs) : docs[k].grpkod = c
     /\ CatUpsertAll(store, docs, t)[c] # store[c]})

----------------------------------------------------------------------------
(* One run of fullSync / deltaSync / syncCategories *)

Modes == {"full", "delta"}
\* mode of a run of syncCategories on its own (the sync-categories trigger)
CategoriesOnly == "categories"

ZeroCounts == [inserted |-> 0, updated |-> 0]
NoCrawl == [mainGroups |-> <<>>, gi |-> 0, subGroups |-> <<>>, si |-> 0, categoryOps |-> <<>>]
NoResult == [status |-> "none"]
NoPrev == [ok |-> FALSE]

Min(a, b) == IF a < b THEN a ELSE b
StartOfTime == cacheTimeout + 1

\* the outcomes the environment may choose for a call that can throw
Oks == IF faultsLeft > 0 THEN BOOLEAN ELSE {TRUE}
Spent(ok) == faultsLeft' = faultsLeft - (IF ok THEN 0 ELSE 1)
TcmbOk == [ok |-> TRUE, usd |-> TcmbUsd, eur |-> TcmbEur]
TcmbNow == IF faultsLeft > 0 THEN TcmbOutcomes ELSE {TcmbOk}

Logged(h, calls) == [h EXCEPT !.log = @ \o calls]

\* the run throws out of fullSync / deltaSync / syncCategories
Throws(phase) ==
  /\ pc' = "failed"
  /\ result' = [status |-> "threw", phase |-> phase]

HistInit ==
  [cursorAtStart |-> <<>>, log |-> <<>>, ikoZero |-> FALSE, legacyCalled |-> FALSE,
   productThrew |-> FALSE, catThrew |-> FALSE, catReturned |-> FALSE, failedSub |-> {}, failedSub2 |-> {},
   prodDone |-> <<>>, prevRun |-> NoPrev, storeAtStart |-> <<>>, batches |-> <<>>,
   refreshes |-> <<>>]

InitRun ==
  /\ pc = "idle"
  /\ mode = "none"
  /\ all = <<>>
  /\ usdRate = 0
  /\ eurRate = 0
  /\ bi = 0
  /\ totalInserted = 0
  /\ totalUpdated = 0
  /\ categoryResult = ZeroCounts
  /\ crawl = NoCrawl
  /\ result = NoResult
  /\ runs = 0
  /\ hist = HistInit

InitStores ==
  /\ products = <<>>
  /\ categories = <<>>
  /\ cursor = <<>>
  /\ rates = NoRates
  /\ now = StartOfTime

\* a trigger (cron, or the manual sync routes) starts a run
Trigger(m) ==
  /\ pc \in {"idle", "done", "failed"}
  /\ runs < MaxRuns
  /\ runs' = runs + 1
  /\ mode' = m
  /\ pc' = IF m = CategoriesOnly THEN "catGroups" ELSE "fetch"
  /\ all' = <<>>
  /\ usdRate' = 0
  /\ eurRate' = 0
  /\ bi' = 0
  /\ totalInserted' = 0
  /\ totalUpdated' = 0
  /\ categoryResult' = ZeroCounts
  /\ crawl' = NoCrawl
  /\ result' = NoResult
  /\ hist' = [HistInit EXCEPT
                !.cursorAtStart = cursor,
                !.prodDone = products,
                !.storeAtStart = products,
                !.prevRun = IF pc = "done" /\ mode \in Modes
                              THEN [ok |-> TRUE, mode |-> mode, all |-> all, usd |-> usdRate,
                                    eur |-> eurRate, store |-> products]
                              ELSE NoPrev]
  /\ UNCHANGED <<erpIko, erpTree, now, products, categories, cursor, rates, faultsLeft>>

\* const all = await fetchAllErpProducts()
FetchProducts ==
  /\ pc = "fetch"
  /\ \E ikoOk \in Oks, ikoEnv \in EnvelopesOf(erpIko),
        legacyOk \in {TRUE}, legacyEnv \in EnvelopesOf(ErpLegacyRows) :
       LET f == fetchAllErpProducts(ikoOk, ikoEnv, legacyOk, legacyEnv)
           h == [Logged(hist, <<"ikoStoklist">> \o
                          (IF f.legacyCalled THEN <<"slStoklist">> ELSE <<>>))
                   EXCEPT !.ikoZero = ikoOk /\ ikoEnv.rows = <<>>,
                          !.legacyCalled = f.legacyCalled,
                          !.productThrew = f.threw]
       IN  /\ hist' = h
           /\ Spent(ikoOk)
           /\ IF f.threw
                THEN Throws("fetch") /\ UNCHANGED all
                ELSE /\ all' = f.rows
                     \* upsertProducts returns at once on an empty list
                     /\ pc' = IF f.rows = <<>> THEN "catGroups" ELSE "rateUSD"
                     /\ UNCHANGED result
  /\ UNCHANGED <<erpIko, erpTree, now, products, categories, cursor, rates, mode,
                 usdRate, eurRate, bi, totalInserted, totalUpdated, categoryResult, crawl, runs>>

\* the run's record of a call of fetchRatesFromTCMB: how the request ended and
\* what the function returned
Refreshed(h, fetched, o) ==
  IF fetched
    THEN [h EXCEPT !.refreshes = @ \o <<[outcome |-> o, returned |-> fetchRatesFromTCMBReturn(o)]>>]
    ELSE h

\* const usdRate = await currencyService.getRate('USD')
GetRateUSD ==
  /\ pc = "rateUSD"
  /\ \E o \in TcmbNow :
       LET g == getRate(rates, USD, o, now) IN
       /\ Spent(~g.fetched \/ o = TcmbOk)
       /\ rates' = g.rates
       /\ usdRate' = g.rate
       /\ hist' = Logged(Refreshed(hist, g.fetched, o), IF g.fetched THEN <<"tcmb">> ELSE <<>>)
  /\ pc' = "rateEUR"
  /\ UNCHANGED <<erpIko, erpTree, now, products, categories, cursor, mode, all, eurRate,
                 bi, totalInserted, totalUpdated, categoryResult, crawl, result, runs>>

\* const eurRate = await currencyService.getRate('EUR')
GetRateEUR ==
  /\ pc = "rateEUR"
  /\ \E o \in TcmbNow :
       LET g == getRate(rates, EUR, o, now) IN
       /\ Spent(~g.fetched \/ o = TcmbOk)
       /\ rates' = g.rates
       /\ eurRate' = g.rate
       /\ hist' = Logged(Refreshed(hist, g.fetched, o), IF g.fetched THEN <<"tcmb">> ELSE <<>>)
  /\ pc' = "batch"
  /\ UNCHANGED <<erpIko, erpTree, now, products, categories, cursor, mode, all, usdRate,
                 bi, totalInserted, totalUpdated, categoryResult, crawl, result, runs>>

\* a catch that logs the failed batch and goes on
upsertProductsCatch_Swallow == pc' = "catGroups" /\ UNCHANGED result

\* the catch of upsertProducts' bulkWrite: log and rethrow
upsertProductsCatch == Throws("batch")

\* a loop that leaves after its first batch
NextAfterBatch_FirstOnly(i, n) == "catGroups"

\* the loop test of upsertProducts after the batch at offset i of n products
NextAfterBatch(i, n) == IF i + BATCH_SIZE < n THEN "batch" ELSE "catGroups"

\* batches that share their border product
BatchDocs_Overlap(list, i, usd, eur, t) ==
  LET batch == SubSeq(list, i + 1, Min(i + BATCH_SIZE + 1, Len(list)))
  IN  [k \in 1..Len(batch) |-> BuildDoc(batch[k], usd, eur, t)]

\* batches converted at rates looked up anew for each batch, the rates having
\* moved meanwhile
BatchDocs_RatesPerBatch(list, i, usd, eur, t) ==
  LET batch == SubSeq(list, i + 1, Min(i + BATCH_SIZE, Len(list)))
  IN  [k \in 1..Len(batch) |-> BuildDoc(batch[k], usd + i, eur + i, t)]

\* the documents of the batch that starts at offset i
BatchDocs(list, i, usd, eur, t) ==
  LET batch == SubSeq(list, i + 1, Min(i + BATCH_SIZE, Len(list)))
  IN  [k \in 1..Len(batch) |-> BuildDoc(batch[k], usd, eur, t)]

\* a failed write that undoes the batches the run has written
AfterFailedWrite_RolledBack(store, docs, keep, t) == hist.storeAtStart

\* the collection after a bulkWrite that threw: the operations the unordered
\* write applied stay, and so does everything written before
AfterFailedWrite(store, docs, keep, t) == UpsertAll(store, Pick(docs, keep, 1), t)

\* one turn of upsertProducts' loop: build the batch, await Product.bulkWrite.
\* ok: the write returned.  Otherwise it threw, after the unordered write applied
\* the operations at the positions `keep`; upsertProducts rethrows.
UpsertBatch ==
  /\ pc = "batch"
  /\ LET docs == BatchDocs(all, bi, usdRate, eurRate, now) IN
     \E ok \in Oks :
       /\ Spent(ok)
       /\ IF ok
         THEN /\ products' = UpsertAll(products, docs, now)
              /\ totalInserted' = totalInserted + UpsertedCount(products, docs)
              /\ totalUpdated' = totalUpdated + ModifiedCount(products, docs, now)
              /\ bi' = bi + BATCH_SIZE
              /\ pc' = NextAfterBatch(bi, Len(all))
              /\ hist' = [Logged(hist, <<"Product.bulkWrite">>) EXCEPT
                            !.prodDone = UpsertAll(products, docs, now),
                            !.batches = Append(@, [k \in 1..Len(docs) |-> docs[k].stkno])]
              /\ UNCHANGED result
         ELSE \E keep \in SUBSET (1..Len(docs)) :
              /\ products' = AfterFailedWrite(products, docs, keep, now)
              /\ hist' = [Logged(hist, <<"Product.bulkWrite">>) EXCEPT
                            !.productThrew = TRUE,
                            !.batches = Append(@, [k \in 1..Len(docs) |-> docs[k].stkno])]
              /\ upsertProductsCatch
              /\ UNCHANGED <<totalInserted, totalUpdated, bi>>
  /\ UNCHANGED <<erpIko, erpTree, now, categories, cursor, rates, mode, all, usdRate,
                 eurRate, categoryResult, crawl, runs>>

\* a category failure that aborts the run
CategoriesThrew_Rethrow(h) ==
  /\ hist' = [h EXCEPT !.catThrew = TRUE]
  /\ UNCHANGED categoryResult
  /\ Throws("categories")

\* syncCategories threw: fullSync and deltaSync swallow it (categoryResult keeps
\* its zero counts), the sync-categories trigger gets it
CategoriesThrew(h) ==
  /\ hist' = [h EXCEPT !.catThrew = TRUE]
  /\ UNCHANGED categoryResult
  /\ IF mode = CategoriesOnly
       THEN Throws("categories")
       ELSE pc' = "cursor" /\ UNCHANGED result

\* syncCategories returned r
CategoriesReturned(h, r) ==
  /\ hist' = [h EXCEPT !.catReturned = TRUE]
  /\ categoryResult' = r
  /\ IF mode = CategoriesOnly
       THEN pc' = "done" /\ result' = [status |-> "returned", summary |-> r]
       ELSE pc' = "cursor" /\ UNCHANGED result

\* where the crawl goes after the group at index gi is finished
AfterGroup(c) == IF c.gi + 1 > Len(c.mainGroups) THEN "catFlush" ELSE "catSub"

\* a catch that forgets what the group has pushed
NextGroup_DropOps(c, ops) ==
  [c EXCEPT !.gi = @ + 1, !.subGroups = <<>>, !.si = 0]

\* the crawl after the catch of a failed getSubGroups (log, nothing else), or after
\* an empty answer: on to the next group with the operations pushed so far
NextGroup(c, ops) ==
  [c EXCEPT !.categoryOps = ops, !.gi = @ + 1, !.subGroups = <<>>, !.si = 0]

\* const mainGroups = await soapService.getProductGroups()
CatFetchGroups ==
  /\ pc = "catGroups"
  /\ \E ok \in Oks, env \in EnvelopesOf(erpTree.groups) :
       LET r == getProductGroups(ok, env)
           h == Logged(hist, <<"urungruplari">>)
       IN  Spent(ok) /\ IF r.threw
             THEN CategoriesThrew(h) /\ UNCHANGED crawl
             ELSE /\ crawl' = [NoCrawl EXCEPT !.mainGroups = r.rows, !.gi = 1]
                  /\ pc' = IF r.rows = <<>> THEN "catFlush" ELSE "catSub"
                  /\ hist' = h
                  /\ UNCHANGED <<categoryResult, result>>
  /\ UNCHANGED <<erpIko, erpTree, now, products, categories, cursor, rates, mode, all,
                 usdRate, eurRate, bi, totalInserted, totalUpdated, runs>>

\* the level-1 upsert of the group at gi, then await getSubGroups(group.grpkod)
CatFetchSub ==
  /\ pc = "catSub"
  /\ LET group == crawl.mainGroups[crawl.gi]
         ops1 == Append(crawl.categoryOps, Level1Op(group, now))
     IN  \E ok \in Oks, env \in EnvelopesOf(SubsOf(erpTree, group.grpkod)) :
           LET r == getSubGroups(ok, env)
               h == Logged(hist, <<"altgrup">>)
           IN  Spent(ok) /\ IF r.threw \/ r.rows = <<>>
                 THEN /\ crawl' = NextGroup(crawl, ops1)
                      /\ pc' = AfterGroup(crawl)
                      /\ hist' = [h EXCEPT !.failedSub =
                                    IF r.threw THEN @ \cup {group.grpkod} ELSE @]
                 ELSE /\ crawl' = [crawl EXCEPT !.categoryOps = ops1,
                                                !.subGroups = r.rows, !.si = 1]
                      /\ pc' = "catSub2"
                      /\ hist' = h
  /\ UNCHANGED <<erpIko, erpTree, now, products, categories, cursor, rates, mode, all,
                 usdRate, eurRate, bi, totalInserted, totalUpdated, categoryResult, result, runs>>

\* the level-2 upsert of the subgroup at si, await getSubGroups2 of its code, then
\* the level-3 upserts of the rows it answered
CatFetchSub2 ==
  /\ pc = "catSub2"
  /\ LET group == crawl.mainGroups[crawl.gi]
         subGroup == crawl.subGroups[crawl.si]
         ops2 == Append(crawl.categoryOps, Level2Op(group, subGroup, now))
     IN  \E ok \in Oks, env \in EnvelopesOf(Subs2Of(erpTree, SubCode(subGroup))) :
           LET r == getSubGroups2(ok, env)
               ops3 == ops2 \o [k \in 1..Len(r.rows) |-> Level3Op(subGroup, r.rows[k], now)]
           IN  /\ Spent(ok)
               /\ hist' = [Logged(hist, <<"altgrup2">>) EXCEPT !.failedSub2 =
                             IF r.threw THEN @ \cup {SubCode(subGroup)} ELSE @]
               /\ IF crawl.si < Len(crawl.subGroups)
                    THEN /\ crawl' = [crawl EXCEPT !.categoryOps = ops3, !.si = @ + 1]
                         /\ pc' = "catSub2"
                    ELSE /\ crawl' = [crawl EXCEPT !.categoryOps = ops3, !.gi = @ + 1,
                                                   !.subGroups = <<>>, !.si = 0]
                         /\ pc' = AfterGroup(crawl)
  /\ UNCHANGED <<erpIko, erpTree, now, products, categories, cursor, rates, mode, all,
                 usdRate, eurRate, bi, totalInserted, totalUpdated, categoryResult, result, runs>>

\* the end of the crawl: await Category.bulkWrite(categoryOps) when there are any.
\* A write that throws has applied the operations at the positions `keep`.
CatFlush ==
  /\ pc = "catFlush"
  /\ LET ops == crawl.categoryOps
         h == Logged(hist, <<"Category.bulkWrite">>)
     IN  IF ops = <<>>
           THEN CategoriesReturned(hist, ZeroCounts) /\ UNCHANGED <<categories, faultsLeft>>
           ELSE \E ok \in Oks :
                  Spent(ok) /\ IF ok
                    THEN /\ categories' = CatUpsertAll(categories, ops, now)
                         /\ CategoriesReturned(h,
                              [inserted |-> CatUpsertedCount(categories, ops),
                               updated |-> CatModifiedCount(categories, ops, now)])
                    ELSE \E keep \in SUBSET (1..Len(ops)) :
                         /\ categories' = CatUpsertAll(categories, Pick(ops, keep, 1), now)
                         /\ CategoriesThrew(h)
  /\ UNCHANGED <<erpIko, erpTree, now, products, cursor, rates, mode, all,
                 usdRate, eurRate, bi, totalInserted, totalUpdated, crawl, runs>>

\* SyncCursor.updateOne({key: 'products'}, {$set: {...}}, {upsert: true})
SyncCursorUpdateOne(c, m, t) ==
  IF c = <<>>
    THEN <<[key |-> "products", lastSuccessfulSyncAt |-> t, lastSyncMode |-> m]>>
    ELSE <<[c[1] EXCEPT !.lastSuccessfulSyncAt = t, !.lastSyncMode = m]>>

\* the two totals taken for each other
ProductResult_Swapped == [inserted |-> totalUpdated, updated |-> totalInserted]

\* what upsertProducts returns: { inserted: totalInserted, updated: totalUpdated }
ProductResult == [inserted |-> totalInserted, updated |-> totalUpdated]

\* the cursor write of fullSync and its return
fullSyncFinish ==
  /\ pc = "cursor"
  /\ mode = "full"
  /\ hist' = Logged(hist, <<"SyncCursor.updateOne">>)
  /\ \E ok \in Oks :
       Spent(ok) /\ IF ok
         THEN /\ cursor' = SyncCursorUpdateOne(cursor, "full", now)
              /\ pc' = "done"
              /\ result' = [status |-> "returned",
                            summary |-> [products |-> [total |-> Len(all),
                                                       inserted |-> ProductResult.inserted,
                                                       updated |-> ProductResult.updated],
                                         categories |-> categoryResult]]
         ELSE Throws("cursor") /\ UNCHANGED cursor
  /\ UNCHANGED <<erpIko, erpTree, now, products, categories, rates, mode, all, usdRate,
                 eurRate, bi, totalInserted, totalUpdated, categoryResult, crawl, runs>>

\* the cursor write of deltaSync and its return
deltaSyncFinish ==
  /\ pc = "cursor"
  /\ mode = "delta"
  /\ hist' = Logged(hist, <<"SyncCursor.updateOne">>)
  /\ \E ok \in Oks :
       Spent(ok) /\ IF ok
         THEN /\ cursor' = SyncCursorUpdateOne(cursor, "delta", now)
              /\ pc' = "done"
              /\ result' = [status |-> "returned",
                            summary |-> [products |-> [fetched |-> Len(all),
                                                       inserted |-> ProductResult.inserted,
                                                       updated |-> ProductResult.updated],
                                         categories |-> categoryResult]]
         ELSE Throws("cursor") /\ UNCHANGED cursor
  /\ UNCHANGED <<erpIko, erpTree, now, products, categories, rates, mode, all, usdRate,
                 eurRate, bi, totalInserted, totalUpdated, categoryResult, crawl, runs>>

----------------------------------------------------------------------------
(* Environment *)

Running == pc \notin {"idle", "done", "failed"}

\* time passes.  The clock ticks between runs: the stamps one run takes differ by
\* less than a tick.
Tick ==
  /\ ~Running
  /\ now < StartOfTime + MaxClock
  /\ now' = now + 1
  /\ UNCHANGED <<erpIko, erpTree, products, categories, cursor, rates, pc, mode, all,
                 usdRate, eurRate, bi, totalInserted, totalUpdated, categoryResult,
                 crawl, result, hist, runs, faultsLeft>>

\* the upstream catalog changes.  A run reads it in FetchProducts only, so a change
\* during a run is a change before the next one.
ErpChange ==
  /\ ~Running
  /\ erpIko' \in Catalogs \ {erpIko}
  /\ UNCHANGED <<erpTree, now, products, categories, cursor, rates, pc, mode, all,
                 usdRate, eurRate, bi, totalInserted, totalUpdated, categoryResult,
                 crawl, result, hist, runs, faultsLeft>>

----------------------------------------------------------------------------
(* SoapService.callSoapMethod: the retry loop around one remote operation *)

\* messages are sequences of characters: String.prototype.includes is a substring
\* test, case-sensitive
Includes(s, sub) ==
  \E i \in 0..(Len(s) - Len(sub)) : SubSeq(s, i + 1, i + Len(sub)) = sub

authentication == <<"a","u","t","h","e","n","t","i","c","a","t","i","o","n">>
login == <<"l","o","g","i","n">>

\* messages of the errors an attempt can throw
MsgTimeout == <<"E","T","I","M","E","D","O","U","T">>
MsgAuth == <<"n","o"," ">> \o authentication
MsgLogin == <<"u","u","s","e">> \o login \o <<" ","f","a","u","l","t">>
MsgLoginCap == <<"L","o","g","i","n">>
MsgEmpty == <<>>
Messages == {MsgTimeout, MsgAuth, MsgLogin, MsgLoginCap, MsgEmpty}

\* the message of the AppError createClient throws
MsgUnavailable ==
  <<"S","O","A","P"," ","s","e","r","v","i","c","e"," ",
    "u","n","a","v","a","i","l","a","b","l","e">>
UnknownError == <<"U","n","k","n","o","w","n"," ","e","r","r","o","r">>

MethodNames == { <<"a","l","t","g","r","u","p">>, <<"u","u","s","e">> \o login }
\* the structured results the remote operation can answer
SoapResults == {"r1", "r2"}

\* a test that lets every error be retried
IsAuthError_Never(message) == FALSE

\* error.message.includes('authentication') || error.message.includes('login')
IsAuthError(message) == Includes(message, authentication) \/ Includes(message, login)

RECURSIVE Pow2(_)
Pow2(n) == IF n = 0 THEN 1 ELSE 2 * Pow2(n - 1)

\* a linear delay
BackoffDelay_Linear(attempt) == attempt * 1000

\* Math.pow(2, attempt) * 1000, in milliseconds
BackoffDelay(attempt) == Pow2(attempt) * 1000

\* a wait after every failed attempt
WaitsBeforeRetry_Always(attempt, retries) == TRUE

\* if (attempt < retries)
WaitsBeforeRetry(attempt, retries) == attempt < retries

\* `SOAP ${methodName} failed: ${lastError?.message || 'Unknown error'}`
FailedMessage(methodName, lastError) ==
  <<"S","O","A","P"," ">> \o methodName \o <<" ","f","a","i","l","e","d",":"," ">>
    \o (IF lastError.def /\ lastError.message # <<>> THEN lastError.message ELSE UnknownError)

\* new AppError(message, 503)
ServiceFailure(methodName, lastError) ==
  [status |-> "threw", statusCode |-> 503, message |-> FailedMessage(methodName, lastError)]

NoError == [def |-> FALSE, message |-> <<>>]
SoapIdle == [pc |-> "idle", methodName |-> <<>>, retries |-> 0, attempt |-> 0,
             lastError |-> NoError, waits |-> <<>>, issued |-> 0, connects |-> 0,
             responses |-> <<>>,
             outcome |-> [status |-> "none"]]

SoapInit == client = "null" /\ soap = SoapIdle

\* what one attempt meets: the connection cannot be established (only asked for
\* when there is no live handle), the operation answers, or the operation throws
AttemptOutcomes ==
  (IF client = "null" THEN {[kind |-> "nocreate", message |-> MsgUnavailable]} ELSE {})
    \cup {[kind |-> "ok", value |-> v] : v \in SoapResults}
    \cup {[kind |-> "err", message |-> m] : m \in Messages}

\* createClient: soap.createClientAsync is called when there is no handle
Connects(handle) == IF handle = "null" THEN 1 ELSE 0

\* a handle that survives a failed operation
ClientAfter_Kept(o) == IF o.kind = "nocreate" THEN "null" ELSE "live"

\* the handle after an attempt: the one createClient returned, or null once the
\* catch of createClient or of callSoapMethod has run
ClientAfter(o) == IF o.kind = "ok" THEN "live" ELSE "null"

\* callSoapMethod(methodName, params, retries) is entered
callSoapMethod(methodName, retries) ==
  /\ soap.pc \in {"idle", "returned", "threw"}
  /\ soap' = IF retries >= 1
               THEN [SoapIdle EXCEPT !.pc = "attempt", !.methodName = methodName,
                                     !.retries = retries, !.attempt = 1]
               \* the loop body never runs
               ELSE [SoapIdle EXCEPT !.pc = "threw", !.methodName = methodName,
                                     !.retries = retries, !.attempt = 1,
                                     !.outcome = ServiceFailure(methodName, NoError)]
  /\ UNCHANGED client

\* one turn of the loop: createClient, the operation, and on an error the catch, up
\* to the backoff timer or the throw after the loop
SoapAttempt ==
  /\ soap.pc = "attempt"
  /\ \E o \in AttemptOutcomes :
       LET seen == [soap EXCEPT !.responses = Append(@, o),
                                !.connects = @ + Connects(client),
                                !.issued = @ + (IF o.kind = "nocreate" THEN 0 ELSE 1)]
           err == [def |-> TRUE, message |-> o.message]
       IN  IF o.kind = "ok"
             THEN /\ client' = ClientAfter(o)
                  /\ soap' = [seen EXCEPT !.pc = "returned",
                                          !.outcome = [status |-> "returned", value |-> o.value]]
             ELSE /\ client' = ClientAfter(o)
                  /\ soap' =
                       IF IsAuthError(o.message)
                         THEN [seen EXCEPT !.lastError = err, !.pc = "threw",
                                           !.outcome = ServiceFailure(soap.methodName, err)]
                       ELSE IF WaitsBeforeRetry(soap.attempt, soap.retries)
                         THEN [seen EXCEPT !.lastError = err, !.pc = "wait",
                                           !.waits = Append(@, BackoffDelay(soap.attempt))]
                       ELSE [seen EXCEPT !.lastError = err, !.pc = "threw",
                                         !.attempt = @ + 1,
                                         !.outcome = ServiceFailure(soap.methodName, err)]

\* the backoff timer fires: attempt++ and the loop test
SoapBackoff ==
  /\ soap.pc = "wait"
  /\ soap' = IF soap.attempt + 1 <= soap.retries
               THEN [soap EXCEPT !.pc = "attempt", !.attempt = @ + 1]
               ELSE [soap EXCEPT !.pc = "threw", !.attempt = @ + 1,
                                 !.outcome = ServiceFailure(soap.methodName, soap.lastError)]
  /\ UNCHANGED client

\* resetConnection()
resetConnection ==
  /\ client = "live"
  /\ client' = "null"
  /\ UNCHANGED soap

SoapNext ==
  \/ (\E m \in MethodNames, r \in 0..DefaultRetries : callSoapMethod(m, r))
       /\ UNCHANGED <<syncVars, priceVars, imageVars, overlapVars, rateVars, wrapVars, twinVars>>
  \/ SoapAttempt /\ UNCHANGED <<syncVars, priceVars, imageVars, overlapVars, rateVars, wrapVars, twinVars>>
  \/ SoapBackoff /\ UNCHANGED <<syncVars, priceVars, imageVars, overlapVars, rateVars, wrapVars, twinVars>>
  \/ resetConnection /\ UNCHANGED <<syncVars, priceVars, imageVars, overlapVars, rateVars, wrapVars, twinVars>>

----------------------------------------------------------------------------
(* Remote Catalog Client: the fetch wrappers, called on their own *)

WrapIdle == wr = [pc |-> "idle"]
\* no side-by-side run of fullSync and deltaSync
NoTwin == [pc |-> "idle"]
TwinIdle == tw = NoTwin

WrapperNames == {"getProductsWithAllPrices", "getProducts", "getProductGroups",
                 "getSubGroups", "getSubGroups2", "getOrders"}

\* the remote operation each wrapper calls
MethodOf(w) ==
  CASE w = "getProductsWithAllPrices" -> <<"i","k","o","S","t","o","k","l","i","s","t">>
    [] w = "getProducts" -> <<"s","l","S","t","o","k","l","i","s","t">>
    [] w = "getProductGroups" -> <<"u","r","u","n","g","r","u","p","l","a","r","i">>
    [] w = "getSubGroups" -> <<"a","l","t","g","r","u","p">>
    [] w = "getSubGroups2" -> <<"a","l","t","g","r","u","p","2">>
    [] OTHER -> <<"r","s","i","p","a","r","i","s","l","e","r">>

TTsiparisRow == <<"T","T","s","i","p","a","r","i","s","R","o","w">>
\* an error of the remote operation that names the order rows
MsgNoOrders == <<"n","o"," ">> \o TTsiparisRow

\* getOrders: message is that of the error callSoapMethod threw
getOrders(soapOk, message, env) ==
  IF ~soapOk THEN (IF Includes(message, TTsiparisRow) THEN Returned(<<>>) ELSE Thrown)
  ELSE IF env.tag \in {"null", "empty"} THEN Returned(<<>>)
  ELSE Returned(AsArray(env))

\* the wrapper w on what callSoapMethod did
WrapperResult(w, soapOk, message, env) ==
  CASE w = "getProductsWithAllPrices" -> getProductsWithAllPrices(soapOk, env)
    [] w = "getProducts" -> getProducts(soapOk, env)
    [] w = "getProductGroups" -> getProductGroups(soapOk, env)
    [] w = "getSubGroups" -> getSubGroups(soapOk, env)
    [] w = "getSubGroups2" -> getSubGroups2(soapOk, env)
    [] OTHER -> getOrders(soapOk, message, env)

\* the rows the remote service holds for a call: lists of up to MaxRows rows
WrapRows == {"r1", "r2", "r3"}
WrapLists == UNION {[1..n -> WrapRows] : n \in 0..MaxRows}

\* a wrapper is called and awaits callSoapMethod
WrapCall ==
  /\ wr.pc \in {"idle", "returned"}
  /\ \E w \in WrapperNames : wr' = [pc |-> "soap", wrapper |-> w]

\* callSoapMethod returns an envelope and the wrapper finishes
WrapSoapReturns ==
  /\ wr.pc = "soap"
  /\ \E rows \in WrapLists : \E env \in EnvelopesOf(rows) :
       wr' = [pc |-> "returned", wrapper |-> wr.wrapper, soapOk |-> TRUE, env |-> env,
              message |-> <<>>, out |-> WrapperResult(wr.wrapper, TRUE, <<>>, env)]

\* callSoapMethod throws and the wrapper's catch runs
WrapSoapThrows ==
  /\ wr.pc = "soap"
  /\ \E m \in {MsgTimeout, MsgNoOrders} :
       LET message == FailedMessage(MethodOf(wr.wrapper), [def |-> TRUE, message |-> m])
           env == Envelope("none", <<>>)
       IN  wr' = [pc |-> "returned", wrapper |-> wr.wrapper, soapOk |-> FALSE, env |-> env,
                  message |-> message, out |-> WrapperResult(wr.wrapper, FALSE, message, env)]

WrapNext ==
  \/ WrapCall /\ UNCHANGED <<syncVars, soapVars, priceVars, imageVars, overlapVars, rateVars, twinVars>>
  \/ WrapSoapReturns /\ UNCHANGED <<syncVars, soapVars, priceVars, imageVars, overlapVars, rateVars, twinVars>>
  \/ WrapSoapThrows /\ UNCHANGED <<syncVars, soapVars, priceVars, imageVars, overlapVars, rateVars, twinVars>>

----------------------------------------------------------------------------
(* The price conversion of upsertProducts, one raw row at a time *)

PriceIdle == px = [pc |-> "idle"]

\* p.cinsi as the ERP may send it
RawCurrencies ==
  { <<"u", "s", "d", " ">>, USD, EUR, <<" ", "e", "u", "r">>, TRY, <<"t", "r", "y">>,
    <<>>, <<" ">>, UndefStr, <<"N", "U", "L", "L">>, <<"G", "B", "P">> }

\* tier amounts in mils: absent, 0, 10.00, 1.005, 1.004, 0.333
RawAmounts == {Undef, Num(0), Num(10000), Num(1005), Num(1004), Num(333)}

\* the rates getRate can hand to upsertProducts, in hundredths
UsdRates == {FallbackUsd, TcmbUsd, 100}
EurRates == {FallbackEur, TcmbEur}

\* a row with amount a at tier k and amount b at every other tier
PriceRow(cinsi, k, a, b) ==
  Row("S1", "Vazo", "Cam", cinsi, [j \in Tiers |-> IF j = k THEN a ELSE b], Num(1000), Undef)

\* rows of one product that carry the balance under bakiye or under bky
BalanceRows ==
  { Row("S1", "Vazo", "Cam", USD, Fiyat(Num(10000), Undef), bal, bky) :
      bal \in {Undef, Num(2000)}, bky \in {Undef, Num(1000), Num(2000)} }

PriceInputs ==
  { [pc |-> "row", row |-> PriceRow(c, k, a, b), usd |-> u, eur |-> e] :
      c \in RawCurrencies, k \in {1, NumTiers}, a \in RawAmounts, b \in {Undef, Num(1005)},
      u \in UsdRates, e \in EurRates }
  \cup { [pc |-> "row", row |-> r, usd |-> FallbackUsd, eur |-> FallbackEur] : r \in BalanceRows }

\* the body of upsertProducts' batch.map for the row at hand
upsertProductsMap ==
  /\ px.pc = "row"
  /\ px' = [pc |-> "built", row |-> px.row, usd |-> px.usd, eur |-> px.eur,
            doc |-> BuildDoc(px.row, px.usd, px.eur, now)]

\* the map goes on to another row
PriceNextRow ==
  /\ px.pc = "built"
  /\ px' \in PriceInputs

PriceNext ==
  \/ upsertProductsMap /\ UNCHANGED <<syncVars, soapVars, imageVars, overlapVars, rateVars, wrapVars, twinVars>>
  \/ PriceNextRow /\ UNCHANGED <<syncVars, soapVars, imageVars, overlapVars, rateVars, wrapVars, twinVars>>

----------------------------------------------------------------------------
(* syncProductImages: the image enrichment job *)

NoImageRun == [pc |-> "idle", runs |-> 0, imageMap |-> {}, mongoProducts |-> <<>>,
               i |-> 1, updateCount |-> 0]
ImageIdle == img = NoImageRun

\* the sets of SKUs for which WooCommerce may hold a product with an image
WcSkus == { {"S1"}, {"S1", "S3"} }
\* wc.images[0].src
WcUrl(sku) == IF sku = "S1" THEN "wc/S1.jpg" ELSE "wc/other.jpg"

\* the sequences that list the elements of S, each once
Listings(S) ==
  {q \in [1..Cardinality(S) -> S] : \A a, b \in 1..Cardinality(S) : q[a] = q[b] => a = b}

\* const wcProducts = await woocommerceService.getAllProducts(), then the image map
ImageStart ==
  /\ img.pc \in {"idle", "done"}
  /\ img.runs < MaxImageRuns
  /\ \E skus \in WcSkus :
       img' = [NoImageRun EXCEPT !.pc = "find", !.runs = img.runs + 1, !.imageMap = skus]
  /\ UNCHANGED products

\* const mongoProducts = await Product.find({isActive: {$ne: false}})
ImageFind ==
  /\ img.pc = "find"
  /\ \E q \in Listings({s \in DOMAIN products : products[s].doc.isActive}) :
       img' = [img EXCEPT !.pc = "write", !.mongoProducts = q, !.i = 1]
  /\ UNCHANGED products

\* the loop of syncProductImages from position i with the operations in ops, up to
\* the next bulkWrite: ops are the stock numbers to update, i the position reached
RECURSIVE Gather(_, _, _, _)
Gather(list, i, skus, ops) ==
  IF i > Len(list) THEN [ops |-> ops, i |-> i]
  ELSE LET ops2 == IF list[i] \in skus THEN Append(ops, list[i]) ELSE ops
       IN  IF Len(ops2) >= BATCH_SIZE THEN [ops |-> ops2, i |-> i + 1]
           ELSE Gather(list, i + 1, skus, ops2)

\* updateOne {filter: {stkno}, update: {$set: {imageUrl, imageSource, imageSyncedAt}}}:
\* no upsert
SetImage(store, sku, t) ==
  IF sku \notin DOMAIN store THEN store
  ELSE [store EXCEPT ![sku] = [@ EXCEPT
          !.image = [imageUrl |-> WcUrl(sku), imageSource |-> "woocommerce",
                     imageSyncedAt |-> t],
          !.updatedAt = t]]

RECURSIVE SetImages(_, _, _)
SetImages(store, ops, t) ==
  IF ops = <<>> THEN store ELSE SetImages(SetImage(store, Head(ops), t), Tail(ops), t)

\* the loop goes on to its next await Product.bulkWrite(bulkOps), or to its end
ImageWrite ==
  /\ img.pc = "write"
  /\ LET g == Gather(img.mongoProducts, img.i, img.imageMap, <<>>) IN
     /\ products' = SetImages(products, g.ops, now)
     /\ img' = [img EXCEPT !.i = g.i, !.updateCount = @ + Len(g.ops),
                           !.pc = IF g.i > Len(img.mongoProducts) THEN "done" ELSE "write"]

imageFrame == <<erpIko, erpTree, now, categories, cursor, rates, pc, mode, all,
                usdRate, eurRate, bi, totalInserted, totalUpdated, categoryResult, crawl,
                result, runs, faultsLeft, hist>>

----------------------------------------------------------------------------
(* Exchange Rate Provider: getRate and its refresh, called on their own *)

NoRateCall == [pc |-> "idle"]
RateIdle == rq = NoRateCall

\* the codes getRate is called with
RateCodes == {USD, EUR, <<"u", "s", "d">>, <<"e", "u", "r">>, TRY, <<"G", "B", "P">>}

\* getRate(c) is called: it returns at once, or awaits fetchRatesFromTCMB
RateCall ==
  /\ rq.pc \in {"idle", "returned"}
  /\ \E c \in RateCodes :
       LET cur == ToUpperCase(c) IN
       rq' = IF cur \in {USD, EUR} /\ NeedsRefresh(rates, cur, now)
               THEN [pc |-> "refresh", code |-> c, before |-> rates, at |-> now]
               ELSE [pc |-> "returned", code |-> c, before |-> rates, at |-> now,
                     fetched |-> FALSE, rate |-> getRate(rates, c, TcmbOk, now).rate]
  /\ UNCHANGED <<rates, now>>

\* the request to the rate source ends, fetchRatesFromTCMB returns, getRate returns
RateRefresh ==
  /\ rq.pc = "refresh"
  /\ \E o \in TcmbOutcomes :
       LET g == getRate(rates, rq.code, o, now) IN
       /\ rates' = g.rates
       /\ rq' = [pc |-> "returned", code |-> rq.code, before |-> rates, at |-> now,
                 fetched |-> TRUE, rate |-> g.rate, outcome |-> o,
                 refreshed |-> fetchRatesFromTCMBReturn(o)]
  /\ UNCHANGED now

\* time passes between calls: an hour, or a whole time-to-live
RateAdvance ==
  /\ rq.pc \in {"idle", "returned"}
  /\ \E d \in {1, cacheTimeout} :
       /\ now + d <= StartOfTime + MaxRateHours
       /\ now' = now + d
  /\ UNCHANGED <<rates, rq>>

rateFrame == <<erpIko, erpTree, products, categories, cursor, pc, mode, all,
               usdRate, eurRate, bi, totalInserted, totalUpdated, categoryResult, crawl,
               result, runs, faultsLeft, hist>>

RateNext ==
  \/ RateCall /\ UNCHANGED <<rateFrame, soapVars, priceVars, imageVars, overlapVars, wrapVars, twinVars>>
  \/ RateRefresh /\ UNCHANGED <<rateFrame, soapVars, priceVars, imageVars, overlapVars, wrapVars, twinVars>>
  \/ RateAdvance /\ UNCHANGED <<rateFrame, soapVars, priceVars, imageVars, overlapVars, wrapVars, twinVars>>

----------------------------------------------------------------------------
(* Overlapping runs: two flows of upsertProducts on one Product collection,
   interleaved at the level of the store's single-document operations *)

\* the cron job's flow and the route's flow
OvFlows == {"scheduled", "manual"}

\* what the ERP lists when a flow fetches
OvCatalogs == { <<RowS1, RowS2, RowS3>>, <<RowS1b, RowS2, RowS3>> }

OvIdleRun == [pc |-> "idle", all |-> <<>>, t |-> 0, lo |-> 1, pending |-> {},
              inflight |-> {}, errors |-> FALSE]

\* store: the collection as a list of documents, so that two documents of one
\* stock number are two entries; fetched: every list fetched, with its run's stamp
NoOverlap == [store |-> <<>>, run |-> [r \in OvFlows |-> OvIdleRun], started |-> 0,
              fetched |-> {}]

OverlapIdle == ov = NoOverlap

\* the positions of the batch that begins at lo
OvBatch(list, lo) == lo..Min(lo + BATCH_SIZE - 1, Len(list))

\* the $set document of the operation at position k of flow r
OvDoc(r, k) == BuildDoc(ov.run[r].all[k], TcmbUsd, TcmbEur, ov.run[r].t)

\* filter: { stkno }: the entries of the collection the filter matches
Matches(store, stkno) == {i \in 1..Len(store) : store[i].doc.stkno = stkno}

\* a collection without the unique index on stkno
DuplicateKey_NoIndex(store, stkno) == FALSE

\* stkno: { unique: true }: an insert of this key is refused
DuplicateKey(store, stkno) == Matches(store, stkno) # {}

\* updateOne's $set on the first entry the filter matches
OvUpdated(store, doc) ==
  LET i == CHOOSE m \in Matches(store, doc.stkno) :
             \A n \in Matches(store, doc.stkno) : m <= n
  IN  [store EXCEPT ![i].doc = doc]

\* the insert of an upsert: $set and $setOnInsert
OvInserted(store, doc) == Append(store, [doc |-> doc, image |-> NoImage])

\* a flow starts: fetchAllErpProducts returns, the rates are read, the first batch
\* is sent.  Each flow is followed through one run.
OvTrigger(r) ==
  /\ ov.run[r].pc = "idle"
  /\ \E list \in OvCatalogs :
       ov' = [ov EXCEPT
                !.started = @ + 1,
                !.fetched = @ \cup {[all |-> list, t |-> ov.started + 1]},
                !.run[r] = [pc |-> "batch", all |-> list, t |-> ov.started + 1, lo |-> 1,
                            pending |-> OvBatch(list, 1), inflight |-> {}, errors |-> FALSE]]

\* the store takes up one operation of the batch ({ ordered: false }: any of them):
\* a matched document is updated in one step, otherwise an insert is due
OvMatch(r) ==
  /\ ov.run[r].pc = "batch"
  /\ \E k \in ov.run[r].pending :
       LET doc == OvDoc(r, k) IN
       ov' = IF Matches(ov.store, doc.stkno) # {}
               THEN [ov EXCEPT !.store = OvUpdated(ov.store, doc),
                               !.run[r].pending = @ \ {k}]
               ELSE [ov EXCEPT !.run[r].pending = @ \ {k},
                               !.run[r].inflight = @ \cup {k}]

\* the insert of an upsert that matched nothing.  If the key has been inserted
\* meanwhile the unique index refuses it: the store retries the upsert as an
\* update, or reports a duplicate key error for the operation
OvInsert(r) ==
  /\ ov.run[r].pc = "batch"
  /\ \E k \in ov.run[r].inflight :
       LET doc == OvDoc(r, k) IN
       IF DuplicateKey(ov.store, doc.stkno)
         THEN \/ ov' = [ov EXCEPT !.store = OvUpdated(ov.store, doc),
                                  !.run[r].inflight = @ \ {k}]
              \/ ov' = [ov EXCEPT !.run[r].errors = TRUE,
                                  !.run[r].inflight = @ \ {k}]
         ELSE ov' = [ov EXCEPT !.store = OvInserted(ov.store, doc),
                               !.run[r].inflight = @ \ {k}]

\* bulkWrite ends: it throws if an operation failed (the catch rethrows and the
\* run is over), else the loop goes on to the next batch or upsertProducts returns
OvBatchEnd(r) ==
  LET u == ov.run[r]
      next == u.lo + BATCH_SIZE
  IN  /\ u.pc = "batch"
      /\ u.pending = {} /\ u.inflight = {}
      /\ ov' = IF u.errors THEN [ov EXCEPT !.run[r].pc = "failed"]
               ELSE IF next > Len(u.all) THEN [ov EXCEPT !.run[r].pc = "done"]
               ELSE [ov EXCEPT !.run[r].lo = next,
                               !.run[r].pending = OvBatch(u.all, next)]

\* partial failure: the connection to the store is lost in the middle of a
\* batch; what has not reached the store is dropped and bulkWrite throws
OvFail(r) ==
  /\ ov.run[r].pc = "batch"
  /\ ov.run[r].pending # {} \/ ov.run[r].inflight # {}
  /\ ov' = [ov EXCEPT !.run[r].pc = "failed", !.run[r].pending = {},
                      !.run[r].inflight = {}]

OverlapNext ==
  \/ (\E r \in OvFlows : OvTrigger(r))
       /\ UNCHANGED <<syncVars, soapVars, priceVars, imageVars, rateVars, wrapVars, twinVars>>
  \/ (\E r \in OvFlows : OvMatch(r))
       /\ UNCHANGED <<syncVars, soapVars, priceVars, imageVars, rateVars, wrapVars, twinVars>>
  \/ (\E r \in OvFlows : OvInsert(r))
       /\ UNCHANGED <<syncVars, soapVars, priceVars, imageVars, rateVars, wrapVars, twinVars>>
  \/ (\E r \in OvFlows : OvBatchEnd(r))
       /\ UNCHANGED <<syncVars, soapVars, priceVars, imageVars, rateVars, wrapVars, twinVars>>
  \/ (\E r \in OvFlows : OvFail(r))
       /\ UNCHANGED <<syncVars, soapVars, priceVars, imageVars, rateVars, wrapVars, twinVars>>

----------------------------------------------------------------------------
(* The specification of sync runs *)

Init ==
  /\ erpIko \in Catalogs
  /\ erpTree = SmallTree
  /\ InitStores
  /\ InitRun
  /\ faultsLeft = MaxFaults
  /\ SoapInit
  /\ PriceIdle
  /\ ImageIdle
  /\ OverlapIdle
  /\ RateIdle
  /\ WrapIdle
  /\ TwinIdle

Next ==
  \/ (\E m \in Modes : Trigger(m)) /\ UNCHANGED <<soapVars, priceVars, imageVars, overlapVars, rateVars, wrapVars, twinVars>>
  \/ FetchProducts /\ UNCHANGED <<soapVars, priceVars, imageVars, overlapVars, rateVars, wrapVars, twinVars>>
  \/ GetRateUSD /\ UNCHANGED <<soapVars, priceVars, imageVars, overlapVars, rateVars, wrapVars, twinVars>>
  \/ GetRateEUR /\ UNCHANGED <<soapVars, priceVars, imageVars, overlapVars, rateVars, wrapVars, twinVars>>
  \/ UpsertBatch /\ UNCHANGED <<soapVars, priceVars, imageVars, overlapVars, rateVars, wrapVars, twinVars>>
  \/ CatFetchGroups /\ UNCHANGED <<soapVars, priceVars, imageVars, overlapVars, rateVars, wrapVars, twinVars>>
  \/ CatFetchSub /\ UNCHANGED <<soapVars, priceVars, imageVars, overlapVars, rateVars, wrapVars, twinVars>>
  \/ CatFetchSub2 /\ UNCHANGED <<soapVars, priceVars, imageVars, overlapVars, rateVars, wrapVars, twinVars>>
  \/ CatFlush /\ UNCHANGED <<soapVars, priceVars, imageVars, overlapVars, rateVars, wrapVars, twinVars>>
  \/ fullSyncFinish /\ UNCHANGED <<soapVars, priceVars, imageVars, overlapVars, rateVars, wrapVars, twinVars>>
  \/ deltaSyncFinish /\ UNCHANGED <<soapVars, priceVars, imageVars, overlapVars, rateVars, wrapVars, twinVars>>
  \/ Tick /\ UNCHANGED <<soapVars, priceVars, imageVars, overlapVars, rateVars, wrapVars, twinVars>>
  \/ ErpChange /\ UNCHANGED <<soapVars, priceVars, imageVars, overlapVars, rateVars, wrapVars, twinVars>>

Spec == Init /\ [][Next]_vars

\* the state in which no sync run was ever triggered
SyncIdle ==
  /\ erpIko = <<>>
  /\ erpTree = EmptyTree
  /\ InitStores
  /\ InitRun
  /\ faultsLeft = 0

InitSoap == SyncIdle /\ SoapInit /\ PriceIdle /\ ImageIdle /\ OverlapIdle /\ RateIdle /\ WrapIdle /\ TwinIdle

SpecSoap == InitSoap /\ [][SoapNext]_vars

\* sync runs without failures, the first of them on the long catalog
InitBatch ==
  /\ erpIko = LongCatalog
  /\ erpTree = SmallTree
  /\ InitStores
  /\ InitRun
  /\ faultsLeft = 0
  /\ SoapInit
  /\ PriceIdle
  /\ ImageIdle
  /\ OverlapIdle
  /\ RateIdle
  /\ WrapIdle
  /\ TwinIdle

SpecBatch == InitBatch /\ [][Next]_vars

\* sync runs without failures over a catalog that does not change, interleaved
\* with the image job
ImageNext ==
  \/ (\E m \in Modes : Trigger(m)) /\ UNCHANGED <<soapVars, priceVars, imageVars, overlapVars, rateVars, wrapVars, twinVars>>
  \/ FetchProducts /\ UNCHANGED <<soapVars, priceVars, imageVars, overlapVars, rateVars, wrapVars, twinVars>>
  \/ GetRateUSD /\ UNCHANGED <<soapVars, priceVars, imageVars, overlapVars, rateVars, wrapVars, twinVars>>
  \/ GetRateEUR /\ UNCHANGED <<soapVars, priceVars, imageVars, overlapVars, rateVars, wrapVars, twinVars>>
  \/ UpsertBatch /\ UNCHANGED <<soapVars, priceVars, imageVars, overlapVars, rateVars, wrapVars, twinVars>>
  \/ CatFetchGroups /\ UNCHANGED <<soapVars, priceVars, imageVars, overlapVars, rateVars, wrapVars, twinVars>>
  \/ CatFetchSub /\ UNCHANGED <<soapVars, priceVars, imageVars, overlapVars, rateVars, wrapVars, twinVars>>
  \/ CatFetchSub2 /\ UNCHANGED <<soapVars, priceVars, imageVars, overlapVars, rateVars, wrapVars, twinVars>>
  \/ CatFlush /\ UNCHANGED <<soapVars, priceVars, imageVars, overlapVars, rateVars, wrapVars, twinVars>>
  \/ fullSyncFinish /\ UNCHANGED <<soapVars, priceVars, imageVars, overlapVars, rateVars, wrapVars, twinVars>>
  \/ deltaSyncFinish /\ UNCHANGED <<soapVars, priceVars, imageVars, overlapVars, rateVars, wrapVars, twinVars>>
  \/ Tick /\ UNCHANGED <<soapVars, priceVars, imageVars, overlapVars, rateVars, wrapVars, twinVars>>
  \/ ImageStart /\ UNCHANGED <<imageFrame, soapVars, priceVars, overlapVars, rateVars, wrapVars, twinVars>>
  \/ ImageFind /\ UNCHANGED <<imageFrame, soapVars, priceVars, overlapVars, rateVars, wrapVars, twinVars>>
  \/ ImageWrite /\ UNCHANGED <<imageFrame, soapVars, priceVars, overlapVars, rateVars, wrapVars, twinVars>>

InitImage ==
  /\ erpIko = <<RowS1, RowS2, RowS3>>
  /\ erpTree = SmallTree
  /\ InitStores
  /\ InitRun
  /\ faultsLeft = 0
  /\ SoapInit
  /\ PriceIdle
  /\ ImageIdle
  /\ OverlapIdle
  /\ RateIdle
  /\ WrapIdle
  /\ TwinIdle

SpecImage == InitImage /\ [][ImageNext]_vars

\* the sync-categories trigger on its own, over a tree that does not change
InitCat ==
  /\ erpIko = <<>>
  /\ erpTree \in {BigTree, SmallTree, EmptyTree}
  /\ InitStores
  /\ InitRun
  /\ faultsLeft = MaxCatFaults
  /\ SoapInit
  /\ PriceIdle
  /\ ImageIdle
  /\ OverlapIdle
  /\ RateIdle
  /\ WrapIdle
  /\ TwinIdle

CatNext ==
  \/ Trigger(CategoriesOnly) /\ UNCHANGED <<soapVars, priceVars, imageVars, overlapVars, rateVars, wrapVars, twinVars>>
  \/ CatFetchGroups /\ UNCHANGED <<soapVars, priceVars, imageVars, overlapVars, rateVars, wrapVars, twinVars>>
  \/ CatFetchSub /\ UNCHANGED <<soapVars, priceVars, imageVars, overlapVars, rateVars, wrapVars, twinVars>>
  \/ CatFetchSub2 /\ UNCHANGED <<soapVars, priceVars, imageVars, overlapVars, rateVars, wrapVars, twinVars>>
  \/ CatFlush /\ UNCHANGED <<soapVars, priceVars, imageVars, overlapVars, rateVars, wrapVars, twinVars>>

SpecCat == InitCat /\ [][CatNext]_vars

\* the category tree of the ERP changes between runs: groups appear and disappear
TreeChange ==
  /\ ~Running
  /\ erpTree' \in {BigTree, SmallTree, EmptyTree} \ {erpTree}
  /\ UNCHANGED <<erpIko, now, products, categories, cursor, rates, pc, mode, all,
                 usdRate, eurRate, bi, totalInserted, totalUpdated, categoryResult,
                 crawl, result, hist, runs, faultsLeft>>

\* runs of fullSync, deltaSync and syncCategories without injected failures,
\* over a catalog and a category tree that shrink and grow between runs
ShrinkNext ==
  \/ (\E m \in Modes \cup {CategoriesOnly} : Trigger(m)) /\ UNCHANGED <<soapVars, priceVars, imageVars, overlapVars, rateVars, wrapVars, twinVars>>
  \/ FetchProducts /\ UNCHANGED <<soapVars, priceVars, imageVars, overlapVars, rateVars, wrapVars, twinVars>>
  \/ GetRateUSD /\ UNCHANGED <<soapVars, priceVars, imageVars, overlapVars, rateVars, wrapVars, twinVars>>
  \/ GetRateEUR /\ UNCHANGED <<soapVars, priceVars, imageVars, overlapVars, rateVars, wrapVars, twinVars>>
  \/ UpsertBatch /\ UNCHANGED <<soapVars, priceVars, imageVars, overlapVars, rateVars, wrapVars, twinVars>>
  \/ CatFetchGroups /\ UNCHANGED <<soapVars, priceVars, imageVars, overlapVars, rateVars, wrapVars, twinVars>>
  \/ CatFetchSub /\ UNCHANGED <<soapVars, priceVars, imageVars, overlapVars, rateVars, wrapVars, twinVars>>
  \/ CatFetchSub2 /\ UNCHANGED <<soapVars, priceVars, imageVars, overlapVars, rateVars, wrapVars, twinVars>>
  \/ CatFlush /\ UNCHANGED <<soapVars, priceVars, imageVars, overlapVars, rateVars, wrapVars, twinVars>>
  \/ fullSyncFinish /\ UNCHANGED <<soapVars, priceVars, imageVars, overlapVars, rateVars, wrapVars, twinVars>>
  \/ deltaSyncFinish /\ UNCHANGED <<soapVars, priceVars, imageVars, overlapVars, rateVars, wrapVars, twinVars>>
  \/ Tick /\ UNCHANGED <<soapVars, priceVars, imageVars, overlapVars, rateVars, wrapVars, twinVars>>
  \/ ErpChange /\ UNCHANGED <<soapVars, priceVars, imageVars, overlapVars, rateVars, wrapVars, twinVars>>
  \/ TreeChange /\ UNCHANGED <<soapVars, priceVars, imageVars, overlapVars, rateVars, wrapVars, twinVars>>

InitShrink ==
  /\ erpIko = <<RowS1, RowS2, RowS3>>
  /\ erpTree = BigTree
  /\ InitStores
  /\ InitRun
  /\ faultsLeft = 0
  /\ SoapInit
  /\ PriceIdle
  /\ ImageIdle
  /\ OverlapIdle
  /\ RateIdle
  /\ WrapIdle
  /\ TwinIdle

SpecShrink == InitShrink /\ [][ShrinkNext]_vars

\* between runs, a stored product is soft-deleted by a write to the collection
\* that is not the sync service's
Deactivate ==
  /\ ~Running
  /\ \E s \in DOMAIN products :
       /\ products[s].doc.isActive
       /\ products' = [products EXCEPT ![s].doc.isActive = FALSE]
  /\ UNCHANGED <<erpIko, erpTree, now, categories, cursor, rates, pc, mode, all,
                 usdRate, eurRate, bi, totalInserted, totalUpdated, categoryResult,
                 crawl, result, hist, runs, faultsLeft>>

\* runs without injected failures over a store whose products are soft-deleted
\* between runs
FlagNext ==
  \/ (\E m \in Modes : Trigger(m)) /\ UNCHANGED <<soapVars, priceVars, imageVars, overlapVars, rateVars, wrapVars, twinVars>>
  \/ FetchProducts /\ UNCHANGED <<soapVars, priceVars, imageVars, overlapVars, rateVars, wrapVars, twinVars>>
  \/ GetRateUSD /\ UNCHANGED <<soapVars, priceVars, imageVars, overlapVars, rateVars, wrapVars, twinVars>>
  \/ GetRateEUR /\ UNCHANGED <<soapVars, priceVars, imageVars, overlapVars, rateVars, wrapVars, twinVars>>
  \/ UpsertBatch /\ UNCHANGED <<soapVars, priceVars, imageVars, overlapVars, rateVars, wrapVars, twinVars>>
  \/ CatFetchGroups /\ UNCHANGED <<soapVars, priceVars, imageVars, overlapVars, rateVars, wrapVars, twinVars>>
  \/ CatFetchSub /\ UNCHANGED <<soapVars, priceVars, imageVars, overlapVars, rateVars, wrapVars, twinVars>>
  \/ CatFetchSub2 /\ UNCHANGED <<soapVars, priceVars, imageVars, overlapVars, rateVars, wrapVars, twinVars>>
  \/ CatFlush /\ UNCHANGED <<soapVars, priceVars, imageVars, overlapVars, rateVars, wrapVars, twinVars>>
  \/ fullSyncFinish /\ UNCHANGED <<soapVars, priceVars, imageVars, overlapVars, rateVars, wrapVars, twinVars>>
  \/ deltaSyncFinish /\ UNCHANGED <<soapVars, priceVars, imageVars, overlapVars, rateVars, wrapVars, twinVars>>
  \/ Tick /\ UNCHANGED <<soapVars, priceVars, imageVars, overlapVars, rateVars, wrapVars, twinVars>>
  \/ ErpChange /\ UNCHANGED <<soapVars, priceVars, imageVars, overlapVars, rateVars, wrapVars, twinVars>>
  \/ Deactivate /\ UNCHANGED <<soapVars, priceVars, imageVars, overlapVars, rateVars, wrapVars, twinVars>>

InitFlag ==
  /\ erpIko = <<RowS1, RowS2, RowS3>>
  /\ erpTree = SmallTree
  /\ InitStores
  /\ InitRun
  /\ faultsLeft = 0
  /\ SoapInit
  /\ PriceIdle
  /\ ImageIdle
  /\ OverlapIdle
  /\ RateIdle
  /\ WrapIdle
  /\ TwinIdle

SpecFlag == InitFlag /\ [][FlagNext]_vars

InitOverlap ==
  SyncIdle /\ SoapInit /\ PriceIdle /\ ImageIdle /\ OverlapIdle /\ RateIdle /\ WrapIdle /\ TwinIdle

SpecOverlap == InitOverlap /\ [][OverlapNext]_vars

InitWrap ==
  SyncIdle /\ SoapInit /\ PriceIdle /\ ImageIdle /\ OverlapIdle /\ RateIdle /\ WrapIdle /\ TwinIdle

SpecWrap == InitWrap /\ [][WrapNext]_vars

InitRate == SyncIdle /\ SoapInit /\ PriceIdle /\ ImageIdle /\ OverlapIdle /\ RateIdle /\ WrapIdle /\ TwinIdle

SpecRate == InitRate /\ [][RateNext]_vars

InitPrice == SyncIdle /\ SoapInit /\ px \in PriceInputs /\ ImageIdle /\ OverlapIdle /\ RateIdle /\ WrapIdle /\ TwinIdle

SpecPrice == InitPrice /\ [][PriceNext]_vars

\* an attempt that has started ends, and a backoff timer that is set fires
SpecSoapLive ==
  InitSoap /\ [][SoapNext]_vars /\ WF_soapVars(SoapAttempt) /\ WF_soapVars(SoapBackoff)

----------------------------------------------------------------------------
(* Properties of sync runs *)

Range(q) == {q[k] : k \in 1..Len(q)}
Positions(q, S) == {k \in 1..Len(q) : q[k] \in S}
CategoryFetches == {"urungruplari", "altgrup", "altgrup2"}
\* number of batches of a list of n products
BatchCount(n) == (n + BATCH_SIZE - 1) \div BATCH_SIZE

\* C1: once the product phase of a fullSync or deltaSync run has thrown (the product
\* fetch or a batch write), the run has ended by throwing, without a summary, and
\* it has issued no SyncCursor write: the cursor is the one the run started with.
C1_NoCursorAfterProductFailure ==
  (mode \in Modes /\ hist.productThrew) =>
     /\ pc = "failed"
     /\ result.status = "threw"
     /\ cursor = hist.cursorAtStart
     /\ "SyncCursor.updateOne" \notin Range(hist.log)

\* a second batch threw, after a first one was written, in a run that started with
\* a cursor
C1_Witness ==
  /\ mode \in Modes
  /\ hist.productThrew
  /\ result = [status |-> "threw", phase |-> "batch"]
  /\ bi > 0
  /\ cursor # <<>>

\* C2: once syncCategories has thrown inside fullSync or deltaSync, the run goes on
\* to the cursor write with categories {inserted: 0, updated: 0} and the products as
\* the product phase left them; nothing but the cursor write itself can still make
\* it throw, and when it returns, the cursor 'products' carries the run's mode and
\* the summary the product totals and zero category counts.
C2_CategoryFailureSwallowed ==
  (mode \in Modes /\ hist.catThrew) =>
     /\ pc \in {"cursor", "done", "failed"}
     /\ pc = "failed" => result = [status |-> "threw", phase |-> "cursor"]
     /\ categoryResult = ZeroCounts
     /\ products = hist.prodDone
     /\ pc = "done" =>
          /\ Len(cursor) = 1
          /\ cursor[1].key = "products"
          /\ cursor[1].lastSyncMode = mode
          /\ hist.log[Len(hist.log)] = "SyncCursor.updateOne"
          /\ result.status = "returned"
          /\ result.summary.categories = ZeroCounts
          /\ result.summary.products.inserted = totalInserted
          /\ result.summary.products.updated = totalUpdated

\* a run that wrote products, lost its category phase and returned
C2_Witness ==
  /\ mode \in Modes
  /\ hist.catThrew
  /\ pc = "done"
  /\ totalInserted > 0
  /\ products # <<>>

\* C3: in the calls and writes of one fullSync or deltaSync run, every product batch
\* write comes before the first category fetch, which is issued only when all the
\* batches are written; the cursor write is the last entry, it comes only after the
\* category phase has ended (returned, or thrown and swallowed), and after it no
\* product or category write follows.
C3_PhasesOrdered ==
  mode \in Modes =>
    LET log == hist.log
        writes == Positions(log, {"Product.bulkWrite"})
        fetches == Positions(log, CategoryFetches)
        catWrites == Positions(log, {"Category.bulkWrite"})
        cursorWrites == Positions(log, {"SyncCursor.updateOne"})
    IN  /\ \A i \in writes, j \in fetches \cup catWrites : i < j
        /\ fetches # {} => ~hist.productThrew /\ Cardinality(writes) = BatchCount(Len(all))
        /\ \A i \in fetches, j \in catWrites : i < j
        /\ \A i \in cursorWrites : i = Len(log)
        /\ cursorWrites # {} => hist.catReturned \/ hist.catThrew

\* a run of two batches, a category crawl with a write, and the cursor write
C3_Witness ==
  /\ mode \in Modes
  /\ pc = "done"
  /\ Cardinality(Positions(hist.log, {"Product.bulkWrite"})) = 2
  /\ Positions(hist.log, {"Category.bulkWrite"}) # {}
  /\ hist.log[Len(hist.log)] = "SyncCursor.updateOne"

(* Properties of callSoapMethod *)

\* the attempt met an error that is not an authentication error
FailedNonAuth(o) ==
  /\ o.kind # "ok"
  /\ ~Includes(o.message, authentication)
  /\ ~Includes(o.message, login)

\* C4: when callSoapMethod has returned after the operation threw a
\* non-authentication error on each of the attempts 1..k and answered on attempt
\* k+1, then k is below the attempt budget (3 by default), the operation was issued
\* exactly k+1 times, the waits taken were 2^1, ..., 2^k seconds in that order, and
\* the value returned is the answer of attempt k+1.
C4_RetriesThenReturns ==
  LET n == Len(soap.responses) IN
  (/\ soap.pc = "returned"
   /\ \A i \in 1..(n - 1) : soap.responses[i].kind = "err" /\ FailedNonAuth(soap.responses[i]))
  =>
   /\ n >= 1 /\ n <= soap.retries
   /\ soap.responses[n].kind = "ok"
   /\ soap.issued = n
   /\ Len(soap.waits) = n - 1
   /\ \A i \in 1..(n - 1) : soap.waits[i] = (2 ^ i) * 1000
   /\ soap.outcome = [status |-> "returned", value |-> soap.responses[n].value]

\* the default budget, two failures, 2s and 4s, the third answer returned
C4_Witness ==
  /\ soap.pc = "returned"
  /\ soap.retries = DefaultRetries
  /\ Len(soap.responses) = 3
  /\ soap.responses[1].kind = "err"
  /\ soap.responses[2].kind = "err"
  /\ soap.waits = <<2000, 4000>>
  /\ soap.outcome.value = "r2"

\* C5: an attempt that failed with a message containing 'authentication' or 'login'
\* is the last attempt of its call, whatever the budget left: no wait follows it
\* (the waits are those of the attempts before it), and the call has thrown the
\* 503 error whose message carries that attempt's message.
C5_AuthErrorNotRetried ==
  \A i \in 1..Len(soap.responses) :
    LET o == soap.responses[i] IN
    (o.kind # "ok" /\ (Includes(o.message, authentication) \/ Includes(o.message, login)))
    =>
     /\ i = Len(soap.responses)
     /\ soap.pc = "threw"
     /\ Len(soap.waits) = i - 1
     /\ soap.outcome.status = "threw"
     /\ soap.outcome.statusCode = 503
     /\ Includes(soap.outcome.message, o.message)

\* an authentication error on the first attempt of a call with a budget of three
C5_Witness ==
  /\ soap.pc = "threw"
  /\ soap.retries = DefaultRetries
  /\ Len(soap.responses) = 1
  /\ soap.responses[1].kind = "err"
  /\ soap.responses[1].message = MsgAuth
  /\ soap.waits = <<>>

AllFailedNonAuth == \A i \in 1..Len(soap.responses) : FailedNonAuth(soap.responses[i])

\* while every attempt so far has failed with a non-authentication error: no more
\* than `retries` attempts, one wait after each attempt but the last of the budget,
\* no result; and when the call has ended it made exactly `retries` attempts and
\* threw the 503 error whose message carries the last attempt's message
ExhaustsBudget ==
  (soap.pc # "idle" /\ soap.retries >= 1 /\ AllFailedNonAuth) =>
    LET n == Len(soap.responses) IN
    /\ n <= soap.retries
    /\ soap.pc # "returned"
    /\ Len(soap.waits) <= soap.retries - 1
    /\ Len(soap.waits) = (IF soap.pc = "threw" THEN n - 1 ELSE n)
    /\ soap.pc = "threw" =>
         /\ n = soap.retries
         /\ soap.outcome.status = "threw"
         /\ soap.outcome.statusCode = 503
         /\ Includes(soap.outcome.message, soap.responses[n].message)

\* C6: a call of callSoapMethod whose attempts all fail with a non-authentication
\* error ends: it makes exactly `retries` attempts, waits only between attempts,
\* never returns a result, and throws the 503 error whose message carries the
\* message of the last attempt.
C6_ExhaustionTerminates ==
  /\ []ExhaustsBudget
  /\ (soap.pc \in {"attempt", "wait"} /\ AllFailedNonAuth)
       ~> (soap.pc = "threw" \/ ~AllFailedNonAuth)

\* three failed attempts, one of them a connection that could not be established
C6_Witness ==
  /\ soap.pc = "threw"
  /\ soap.retries = DefaultRetries
  /\ Len(soap.responses) = 3
  /\ AllFailedNonAuth
  /\ soap.responses[3].message = MsgTimeout
  /\ \E i \in 1..3 : soap.responses[i].kind = "nocreate"

----------------------------------------------------------------------------
(* Properties of sync runs, continued *)

(* Properties of the price conversion *)

\* m (in mils) is x (in 1/100000) rounded half-up to two decimals
IsHalfUp2(x, m) ==
  /\ m % 10 = 0
  /\ 100 * m - 500 <= x
  /\ x < 100 * m + 500

----------------------------------------------------------------------------
(* Properties of sync runs, continued *)

\* C7: when ikoStoklist answers with zero products, fetchAllErpProducts has called
\* the legacy listing slStoklist and returned its rows, and the run has not failed
\* in its product fetch.
C7_LegacyFallbackOnEmpty ==
  (mode \in Modes /\ pc # "fetch" /\ hist.ikoZero) =>
     /\ hist.legacyCalled
     /\ "slStoklist" \in Range(hist.log)
     /\ ~hist.productThrew
     /\ all = ErpLegacyRows

\* the stored document but for the stamps the write takes from the clock
Unstamped(d) == [doc |-> [d.doc EXCEPT !.syncedAt = 0], image |-> d.image]

\* the run just returned is a deltaSync that follows a returned deltaSync and has
\* fetched the same catalog and got the same rates
SecondDeltaSync ==
  /\ pc = "done"
  /\ mode = "delta"
  /\ hist.prevRun.ok
  /\ hist.prevRun.mode = "delta"
  /\ hist.prevRun.all = all
  /\ hist.prevRun.usd = usdRate
  /\ hist.prevRun.eur = eurRate

\* C8 as stated: after the second of two deltaSync runs in succession on an
\* unchanged catalog with unchanged rates, every stored Product document is
\* identical, field for field, to what it was after the first, and the second run
\* inserted nothing.
C8_SecondRunIdenticalDocuments ==
  SecondDeltaSync =>
     /\ products = hist.prevRun.store
     /\ totalInserted = 0

\* C8 as amended: ... every stored Product document is identical to what it was
\* after the first run in every field but the stamps syncedAt and updatedAt, which
\* are never older than they were, and the second run inserted nothing.
C8_SecondRunSameButStamps ==
  SecondDeltaSync =>
     /\ DOMAIN products = DOMAIN hist.prevRun.store
     /\ \A s \in DOMAIN products : Unstamped(products[s]) = Unstamped(hist.prevRun.store[s])
     /\ \A s \in DOMAIN products :
          /\ products[s].doc.syncedAt >= hist.prevRun.store[s].doc.syncedAt
          /\ products[s].updatedAt >= hist.prevRun.store[s].updatedAt
     /\ totalInserted = 0

\* a second deltaSync at a later time than the first, on three products
C8_Witness ==
  /\ SecondDeltaSync
  /\ Len(all) = 3
  /\ \E s \in DOMAIN products : products[s].doc.syncedAt # hist.prevRun.store[s].doc.syncedAt

----------------------------------------------------------------------------
(* Properties of the category crawl *)

SeqSet(q) == {q[k] : k \in 1..Len(q)}

\* the crawl has gone through every group it fetched
CrawlComplete ==
  /\ pc \in {"catFlush", "cursor", "done", "failed"}
  /\ hist.log # <<>>
  /\ ~(hist.catThrew /\ hist.log[Len(hist.log)] = "urungruplari")
  /\ "urungruplari" \in SeqSet(hist.log)

\* <<code, level, parent>> of the upserts that are due when the fetches of the
\* children of the groups in failedSub and of the subgroups in failedSub2 threw
DueUpserts(tree, failedSub, failedSub2) ==
  LET groups == SeqSet(tree.groups)
      live == {g \in groups : g.grpkod \notin failedSub}
      subsOf(g) == SeqSet(SubsOf(tree, g.grpkod))
      liveSubs == {s \in UNION {subsOf(g) : g \in live} : SubCode(s) \notin failedSub2}
  IN  {<<g.grpkod, 1, NullParent>> : g \in groups}
        \cup UNION {{<<SubCode(s), 2, g.grpkod>> : s \in subsOf(g)} : g \in live}
        \cup UNION {{<<Sub2Code(x), 3, SubCode(s)>> : x \in SeqSet(Subs2Of(tree, SubCode(s)))} :
                      s \in liveSubs}

\* C10: when the crawl of syncCategories is through, its batch holds the level-1
\* upsert of every group, the level-2 upserts of every group whose level-2 fetch
\* did not throw and the level-3 upserts of every such subgroup whose level-3 fetch
\* did not throw, and no other: a fetch that threw costs the children of its parent
\* only.  The crawl then flushes: syncCategories throws only if the batch write
\* throws, and once the write has returned every upsert of the batch is stored.
C10_BranchFailureIsolated ==
  CrawlComplete =>
    /\ {<<d.grpkod, d.level, d.parentId>> : d \in SeqSet(crawl.categoryOps)}
         = DueUpserts(erpTree, hist.failedSub, hist.failedSub2)
    /\ hist.catThrew => hist.log[Len(hist.log)] = "Category.bulkWrite"
    /\ hist.catReturned =>
         /\ \A d \in SeqSet(crawl.categoryOps) :
              d.grpkod \in DOMAIN categories /\ categories[d.grpkod].doc = d
         /\ categoryResult.inserted + categoryResult.updated <= Len(crawl.categoryOps)

\* the level-2 fetch of A and the level-3 fetch of B1 threw; A, B and B1 are
\* stored and syncCategories returned
C10_Witness ==
  /\ mode = CategoriesOnly
  /\ pc = "done"
  /\ hist.failedSub = {"A"}
  /\ hist.failedSub2 = {"B1"}
  /\ DOMAIN categories = {"A", "B", "B1"}
  /\ result.status = "returned"

----------------------------------------------------------------------------
(* Properties of upsertProducts' batches *)

RECURSIVE Flatten(_)
Flatten(qs) == IF qs = <<>> THEN <<>> ELSE Head(qs) \o Flatten(Tail(qs))

StknosOf(list) == [k \in 1..Len(list) |-> list[k].stkno]

\* the product phase of the run is over and did not throw
ProductPhaseDone == pc \in {"catGroups", "catSub", "catSub2", "catFlush", "cursor", "done"}

\* C11: when upsertProducts has gone through a list of n products, it has written
\* ceil(n / BATCH_SIZE) batches, each of BATCH_SIZE products but a last shorter one
\* when n is no multiple of BATCH_SIZE, the batches in sequence being the list in
\* its order (every product in exactly one batch); and when the n stock numbers are
\* distinct and none was stored when the run began, inserted + updated is n.
C11_BatchesPartitionTheList ==
  (mode \in Modes /\ ProductPhaseDone) =>
    LET n == Len(all)
        b == hist.batches
    IN  /\ Len(b) * BATCH_SIZE >= n
        /\ (Len(b) - 1) * BATCH_SIZE < n \/ (n = 0 /\ Len(b) = 0)
        /\ \A i \in 1..(Len(b) - 1) : Len(b[i]) = BATCH_SIZE
        /\ \A i \in 1..Len(b) : Len(b[i]) >= 1 /\ Len(b[i]) <= BATCH_SIZE
        /\ Flatten(b) = StknosOf(all)
        /\ (/\ \A i, j \in 1..n : all[i].stkno = all[j].stkno => i = j
            /\ \A i \in 1..n : all[i].stkno \notin DOMAIN hist.storeAtStart)
           => totalInserted + totalUpdated = n

\* five new products written as batches of 2, 2 and 1
C11_Witness ==
  /\ mode \in Modes
  /\ pc = "done"
  /\ Len(all) = 5
  /\ hist.batches = << <<"S1", "S2">>, <<"S3", "S4">>, <<"S5">> >>
  /\ hist.storeAtStart = <<>>
  /\ totalInserted = 5

----------------------------------------------------------------------------
(* Properties of the image fields *)

\* C12: a step of a fullSync or deltaSync run (any step that is not the image
\* job's) leaves the image fields of every product that is in the store as they
\* are, and a product it inserts gets null image fields: what the image job wrote
\* is still there after every later product sync.
C12_SyncKeepsImageFields ==
  [][img' = img =>
       /\ \A s \in DOMAIN products :
            s \in DOMAIN products' /\ products'[s].image = products[s].image
       /\ \A s \in DOMAIN products' \ DOMAIN products : products'[s].image = NoImage]_vars

\* a product whose image the job set and which a later sync run wrote again
C12_Witness ==
  \E s \in DOMAIN products :
    /\ products[s].image.imageSource = "woocommerce"
    /\ products[s].image.imageUrl = WcUrl(s)
    /\ products[s].doc.syncedAt > products[s].image.imageSyncedAt

----------------------------------------------------------------------------
(* Exchange Rate Provider *)

\* the call that has returned asked for USD or EUR
AskedForeign == rq.pc = "returned" /\ ToUpperCase(rq.code) \in {USD, EUR}

\* the refresh of the returned call produced no rate for the currency asked
\* for: the request failed, or the payload lacked the currency's sell rate
ProducedNoRate ==
  /\ AskedForeign /\ rq.fetched
  /\ \/ ~rq.outcome.ok
     \/ (IF ToUpperCase(rq.code) = USD THEN rq.outcome.usd ELSE rq.outcome.eur) = 0

\* C13: whenever a refresh produces no rate (failed request, unparsable
\* payload, or the USD/EUR sell rate missing from the payload) and no cached
\* value exists, the fallback rates are installed; getRate('USD') and
\* getRate('EUR') never return 1.
C13_FallbackInsteadOfOne ==
  /\ (ProducedNoRate /\ RateOf(rq.before, ToUpperCase(rq.code)) = 0)
       => (rates.USD = FallbackUsd /\ rates.EUR = FallbackEur)
  /\ AskedForeign => rq.rate # 100

\* C14: a refresh that fails while a rate is cached for a currency leaves that
\* cached rate in place, also when only the other currency's rate is missing.
C14_FailedRefreshKeepsCachedRate ==
  (rq.pc = "returned" /\ rq.fetched /\ ~rq.outcome.ok) =>
     /\ rq.before.USD # 0 => rates.USD = rq.before.USD
     /\ rq.before.EUR # 0 => rates.EUR = rq.before.EUR

\* C16: getRate refreshes exactly when the code is USD or EUR and no rate is
\* cached for it or the cache is older than 24 hours, and returns after the
\* refresh; a cached rate not older than 24 hours is returned without a
\* request; for any other code it returns 1 at once and the cache is unchanged.
C16_RefreshExactlyWhenStale ==
  /\ rq.pc = "refresh" =>
       /\ ToUpperCase(rq.code) \in {USD, EUR}
       /\ rates = rq.before /\ now = rq.at
       /\ \/ RateOf(rates, ToUpperCase(rq.code)) = 0
          \/ now - rates.lastUpdate > cacheTimeout
  /\ rq.pc = "returned" =>
       /\ rq.fetched <=>
            /\ ToUpperCase(rq.code) \in {USD, EUR}
            /\ \/ RateOf(rq.before, ToUpperCase(rq.code)) = 0
               \/ rq.at - rq.before.lastUpdate > cacheTimeout
       /\ (AskedForeign /\ ~rq.fetched) =>
            /\ rq.rate = RateOf(rq.before, ToUpperCase(rq.code))
            /\ rates = rq.before
       /\ ~AskedForeign => (rq.rate = 100 /\ ~rq.fetched /\ rates = rq.before)

\* a rate cached exactly 24 hours ago is returned without a request, and a
\* call for another code has returned 1
C16_Witness ==
  /\ AskedForeign /\ ~rq.fetched
  /\ rq.at - rq.before.lastUpdate = cacheTimeout
  /\ rq.rate = TcmbUsd

\* a cache older than 24 hours has been refreshed
C16_WitnessStale ==
  /\ AskedForeign /\ rq.fetched
  /\ RateOf(rq.before, ToUpperCase(rq.code)) # 0
  /\ rq.at - rq.before.lastUpdate = cacheTimeout + 1

\* the calls of fetchRatesFromTCMB the current run has made
RunRefreshes == Range(hist.refreshes)

----------------------------------------------------------------------------
(* Remote Catalog Client: fetch wrappers *)

\* the list an envelope stands for
ListOf(env) ==
  IF env.tag = "many" THEN env.rows
  ELSE IF env.tag = "one" THEN <<Head(env.rows)>>
  ELSE <<>>

\* C17: every fetch wrapper (product listing, groups, subgroups, subgroups-2,
\* orders) returns a list for every envelope the remote call returns: the rows
\* of a multi-row envelope, a one-element list for a single-row envelope, and
\* the empty list, not an error, for an absent or malformed envelope.
C17_WrappersReturnLists ==
  (wr.pc = "returned" /\ wr.soapOk) =>
     (~wr.out.threw /\ wr.out.rows = ListOf(wr.env))

----------------------------------------------------------------------------
(* Run summaries *)

\* the run has returned its summary
RunReturned == pc = "done" /\ mode \in Modes /\ result.status = "returned"

\* C18 as stated: fullSync and deltaSync both return
\* { products: {total, inserted, updated}, categories: {inserted, updated} }.
C18_SameShapeWithTotal ==
  RunReturned =>
     /\ DOMAIN result.summary = {"products", "categories"}
     /\ DOMAIN result.summary.products = {"total", "inserted", "updated"}
     /\ DOMAIN result.summary.categories = {"inserted", "updated"}

\* C18: on success fullSync returns { products: {total, inserted, updated},
\* categories: {inserted, updated} } and deltaSync returns the same record with
\* the count under products.fetched instead of products.total; the count is the
\* number of products fetched in that run, inserted and updated are the totals
\* accumulated over all batches.
C18_SummaryOfTheRun ==
  RunReturned =>
     LET s == result.summary
         count == IF mode = "full" THEN "total" ELSE "fetched"
     IN  /\ DOMAIN s = {"products", "categories"}
         /\ DOMAIN s.products = {count, "inserted", "updated"}
         /\ DOMAIN s.categories = {"inserted", "updated"}
         /\ s.products[count] = Len(all)
         /\ s.products.inserted =
              Cardinality({k \in 1..Len(all) : all[k].stkno \notin DOMAIN hist.storeAtStart})
         /\ s.products.inserted + s.products.updated <= Len(all)
         /\ s.categories = categoryResult

C18_Witness ==
  /\ RunReturned /\ mode = "delta"
  /\ result.summary.products.fetched = 3
  /\ result.summary.products.inserted = 2
  /\ result.summary.products.updated = 1

----------------------------------------------------------------------------
(* Overlapping runs *)

\* the documents the runs started so far can write: one per fetched record
OvWritable ==
  UNION { {BuildDoc(f.all[k], TcmbUsd, TcmbEur, f.t) : k \in 1..Len(f.all)} : f \in ov.fetched }

\* C19: under any interleaving of overlapping runs and any partial failure the
\* Product store holds at most one document per stock number, and the
\* ERP-derived fields of each stored document are those of one single fetched
\* record, never a mixture of fields from two runs.
C19_StoreNeverCorrupted ==
  /\ \A i, j \in 1..Len(ov.store) :
       ov.store[i].doc.stkno = ov.store[j].doc.stkno => i = j
  /\ \A i \in 1..Len(ov.store) : ov.store[i].doc \in OvWritable

\* two runs overlapped and raced on an insert: one of them has failed on a
\* duplicate key while the other is still writing, and the store holds
\* documents written by different runs
C19_Witness ==
  /\ \E r \in OvFlows : ov.run[r].pc = "failed" /\ ov.run[r].errors
  /\ \E r \in OvFlows : ov.run[r].pc = "batch" /\ ov.run[r].lo > 1
  /\ \E i, j \in 1..Len(ov.store) : ov.store[i].doc.syncedAt # ov.store[j].doc.syncedAt

----------------------------------------------------------------------------
(* Product documents *)

----------------------------------------------------------------------------
(* Currency normalisation *)

NullLiteral == <<"N", "U", "L", "L">>

\* the raw code is absent, empty or only whitespace
AbsentOrBlank(raw) == IsUndefStr(raw) \/ \A k \in 1..Len(raw) : raw[k] = " "

\* the raw codes of the rows at hand, trimmed and in upper case, written out
TrimmedUpper(raw) ==
  CASE raw \in {USD, <<"u", "s", "d", " ">>} -> USD
    [] raw \in {EUR, <<" ", "e", "u", "r">>} -> EUR
    [] raw \in {TRY, <<"t", "r", "y">>} -> TRY
    [] OTHER -> raw

\* the tiers of the built document are the original amounts, rounded
NotConverted ==
  \A j \in 1..NumTiers :
     px.doc.priceList[j] = Round2(px.doc.originalPriceList[j] * 100)

\* C21 as stated: an absent, blank or literal "NULL" code is stored as TRY and
\* the prices are not converted; any other code is stored trimmed, in upper case.
C21_NullLiteralIsLocal ==
  px.pc = "built" =>
     IF AbsentOrBlank(px.row.cinsi) \/ px.row.cinsi = NullLiteral
       THEN px.doc.cinsi = TRY /\ NotConverted
       ELSE px.doc.cinsi = TrimmedUpper(px.row.cinsi)

\* C21: the stored currency is the raw code trimmed and in upper case; it is
\* TRY when the raw code is absent or blank, and then the prices are not
\* converted.  The literal "NULL" is stored as it is (prices not converted).
C21_CurrencyTrimmedUppercased ==
  px.pc = "built" =>
     /\ IF AbsentOrBlank(px.row.cinsi)
          THEN px.doc.cinsi = TRY
          ELSE px.doc.cinsi = TrimmedUpper(px.row.cinsi)
     /\ px.doc.cinsi \notin {USD, EUR} => NotConverted

C21_Witness ==
  /\ px.pc = "built"
  /\ px.row.cinsi = NullLiteral
  /\ px.doc.cinsi = NullLiteral
  /\ px.doc.priceList[1] = 10000

----------------------------------------------------------------------------
(* No deletion *)

\* C22: no run of fullSync, deltaSync or syncCategories deletes a Product or a
\* Category document: the set of stored stock numbers and the set of stored
\* group codes only grow, also when an item has left the upstream catalog.
C22_StoresOnlyGrow ==
  [][/\ DOMAIN products \subseteq DOMAIN products'
     /\ DOMAIN categories \subseteq DOMAIN categories']_vars

\* a run over a catalog without S2 and a tree without group B has ended, and
\* both are still stored
C22_Witness ==
  /\ pc = "done" /\ mode \in Modes
  /\ all = <<RowS1b>> /\ "S2" \in DOMAIN products
  /\ hist.catReturned
  /\ erpTree = SmallTree /\ "B" \in DOMAIN categories

----------------------------------------------------------------------------
(* The active flag *)

\* the stock numbers of the batch written by the step at hand
WrittenNow == Range(hist'.batches[Len(hist'.batches)])

----------------------------------------------------------------------------
(* Connection handle *)

\* what the attempt of the step at hand met
MetNow == soap'.responses[Len(soap'.responses)]

\* C24: a connection is established at the start of an attempt exactly when no
\* live handle exists; after any failed attempt (establishment or operation)
\* the handle is null; a failed establishment raises the service-unavailable
\* error and leaves no handle; after a successful call the handle is kept, and
\* the next attempt reuses it without connecting again.
C24_HandleLifecycle ==
  [][(soap.pc = "attempt" /\ soap' # soap) =>
       /\ soap'.connects = soap.connects + (IF client = "null" THEN 1 ELSE 0)
       /\ MetNow.kind = "nocreate" =>
            /\ client = "null" /\ client' = "null"
            /\ soap'.issued = soap.issued
            /\ soap'.lastError = [def |-> TRUE, message |-> MsgUnavailable]
       /\ MetNow.kind = "err" => client' = "null"
       /\ MetNow.kind = "ok" => (client' = "live" /\ soap'.pc = "returned")
       /\ soap'.pc = "threw" => soap'.outcome.statusCode = 503]_vars

\* a call that reused the handle of an earlier call, lost it on a failed
\* operation, could not connect again, then connected once more and returned
C24_Witness ==
  /\ soap.pc = "returned" /\ client = "live"
  /\ Len(soap.responses) = 3
  /\ soap.responses[1].kind = "err"
  /\ soap.responses[2].kind = "nocreate"
  /\ soap.connects = 2 /\ soap.issued = 2

----------------------------------------------------------------------------
(* A batch write that throws *)

\* the run at hand was aborted by the write of a product batch
AbortedInBatch == mode \in Modes /\ pc = "failed" /\ result.phase = "batch"

\* the product, stock number s, is stored as the run at hand builds it from row
WrittenByThisRun(s, row) ==
  /\ s \in DOMAIN products
  /\ LET t == products[s].doc.syncedAt IN
       /\ products[s].doc = BuildDoc(row, usdRate, eurRate, t)
       /\ hist.cursorAtStart # <<>> => t >= hist.cursorAtStart[1].lastSuccessfulSyncAt

\* C25: when the bulk write of batch k throws, upsertProducts rethrows at once
\* and the run aborts: no batch after k is submitted, the category phase and
\* the cursor write do not happen, and batches 1..k-1 stay in the store as the
\* run wrote them (no rollback).
C25_BatchFailureAbortsWithoutRollback ==
  AbortedInBatch =>
     LET k == Len(hist.batches) IN
     /\ k >= 1 /\ k <= BatchCount(Len(all))
     /\ Cardinality({i \in 1..Len(hist.log) : hist.log[i] = "Product.bulkWrite"}) = k
     /\ hist.log[Len(hist.log)] = "Product.bulkWrite"
     /\ "urungruplari" \notin Range(hist.log)
     /\ "SyncCursor.updateOne" \notin Range(hist.log)
     /\ cursor = hist.cursorAtStart
     /\ result.status = "threw"
     /\ \A b \in 1..(k - 1) : \A j \in 1..Len(hist.batches[b]) :
          WrittenByThisRun(hist.batches[b][j], all[(b - 1) * BATCH_SIZE + j])

\* the second batch of a run threw after the first was written, and the store
\* holds a product newer than the cursor's lastSuccessfulSyncAt
C25_Witness ==
  /\ AbortedInBatch
  /\ Len(hist.batches) = 2
  /\ cursor # <<>>
  /\ \E s \in Range(hist.batches[1]) :
       products[s].doc.syncedAt > cursor[1].lastSuccessfulSyncAt

----------------------------------------------------------------------------
(* The order of the category upserts *)

\* the upsert at position k of ops has its parent placed before it, one level up
ParentPlacedEarlier(ops, k) ==
  \E j \in 1..(k - 1) :
     /\ ops[j].level = ops[k].level - 1
     /\ ops[j].grpkod = ops[k].parentId

\* the run of syncCategories at hand has flushed its list and every upsert succeeded
FlushSucceeded ==
  /\ crawl.categoryOps # <<>>
  /\ hist.catReturned
  /\ "Category.bulkWrite" \in Range(hist.log)

\* C26: in the list syncCategories builds and flushes, a level-1 upsert has
\* parent null and a level-2 or level-3 upsert has the code of an upsert one
\* level up, placed earlier in the list, as its parent; after a flush in which
\* every upsert succeeded, each category the run wrote has its parent code in
\* the store.
C26_ParentsPrecedeChildren ==
  LET ops == crawl.categoryOps IN
  /\ \A k \in 1..Len(ops) :
       /\ ops[k].level \in 1..3
       /\ ops[k].level = 1 => ops[k].parentId = NullParent
       /\ ops[k].level > 1 => ParentPlacedEarlier(ops, k)
  /\ FlushSucceeded =>
       \A k \in 1..Len(ops) :
          /\ ops[k].grpkod \in DOMAIN categories
          /\ categories[ops[k].grpkod].doc.parentId \in DOMAIN categories \cup {NullParent}

\* a flushed list with a level-3 upsert under a level-2 upsert that is named by
\* grpkod, its altgrpkod being absent
C26_Witness ==
  /\ FlushSucceeded
  /\ \E k \in 1..Len(crawl.categoryOps) :
       /\ crawl.categoryOps[k].level = 3
       /\ \E j \in 1..(k - 1) :
            /\ crawl.categoryOps[j].level = 2
            /\ crawl.categoryOps[j].grpkod = crawl.categoryOps[k].parentId
            /\ crawl.categoryOps[j].raw.altgrpkod = ""

----------------------------------------------------------------------------
(* fullSync and deltaSync side by side *)

\* One run as a record: the stores it works on, where it stands, the remote
\* calls and store writes it has issued (calls) and what it returned.
TwinRun(store, cats, cur, r) ==
  [pc |-> "fetch", products |-> store, categories |-> cats, cursor |-> cur, rates |-> r,
   all |-> <<>>, usdRate |-> 0, eurRate |-> 0, bi |-> 0,
   totalInserted |-> 0, totalUpdated |-> 0, categoryResult |-> ZeroCounts,
   calls |-> <<>>, result |-> NoResult]

RunThrew(s, phase, calls) ==
  [s EXCEPT !.pc = "failed", !.calls = @ \o calls,
            !.result = [status |-> "threw", phase |-> phase]]

\* const all = await fetchAllErpProducts()
RunFetch(s, ikoOk, ikoEnv) ==
  LET f == fetchAllErpProducts(ikoOk, ikoEnv, TRUE, Envelope("many", ErpLegacyRows))
      calls == <<"ikoStoklist">> \o (IF f.legacyCalled THEN <<"slStoklist">> ELSE <<>>)
  IN  IF f.threw THEN RunThrew(s, "fetch", calls)
      ELSE [s EXCEPT !.all = f.rows, !.calls = @ \o calls,
                     !.pc = IF f.rows = <<>> THEN "categories" ELSE "rates"]

\* the two getRate calls of upsertProducts
RunRates(s, oUsd, oEur, t) ==
  LET u == getRate(s.rates, USD, oUsd, t)
      e == getRate(u.rates, EUR, oEur, t)
  IN  [s EXCEPT !.rates = e.rates, !.usdRate = u.rate, !.eurRate = e.rate, !.pc = "batch",
                !.calls = @ \o (IF u.fetched THEN <<"tcmb">> ELSE <<>>)
                            \o (IF e.fetched THEN <<"tcmb">> ELSE <<>>)]

\* a delta run that writes only the products whose contentHash changed
WriteOps_DeltaSkipsUnchanged(m, store, docs) ==
  LET Changed(d) == d.stkno \notin DOMAIN store \/ store[d.stkno].doc.checksum # d.checksum
  IN  IF m = "delta" THEN SelectSeq(docs, Changed) ELSE docs

\* the operations of a batch: one upsert per product of the batch, in either mode
WriteOps(m, store, docs) == docs

\* one turn of upsertProducts' loop in a run of mode m
RunBatch(m, s, ok, keep, t) ==
  LET ops == WriteOps(m, s.products, BatchDocs(s.all, s.bi, s.usdRate, s.eurRate, t)) IN
  IF ok
    THEN [s EXCEPT !.products = UpsertAll(@, ops, t),
                   !.totalInserted = @ + UpsertedCount(s.products, ops),
                   !.totalUpdated = @ + ModifiedCount(s.products, ops, t),
                   !.bi = @ + BATCH_SIZE,
                   !.calls = @ \o <<"Product.bulkWrite">>,
                   !.pc = IF NextAfterBatch(s.bi, Len(s.all)) = "batch" THEN "batch"
                          ELSE "categories"]
    ELSE [RunThrew(s, "batch", <<"Product.bulkWrite">>) EXCEPT
            !.products = AfterFailedWrite(@, ops, keep, t)]

\* the upserts syncCategories pushes, in their order, when the level-2 fetches
\* of the groups in failedSub and the level-3 fetches of the subgroups in
\* failedSub2 throw
CrawlOps(tree, failedSub, failedSub2, t) ==
  LET SubOps(g, sub) ==
        <<Level2Op(g, sub, t)>> \o
          (IF SubCode(sub) \in failedSub2 THEN <<>>
           ELSE [k \in 1..Len(Subs2Of(tree, SubCode(sub))) |->
                   Level3Op(sub, Subs2Of(tree, SubCode(sub))[k], t)])
      GroupOps(g) ==
        <<Level1Op(g, t)>> \o
          (IF g.grpkod \in failedSub THEN <<>>
           ELSE Flatten([k \in 1..Len(SubsOf(tree, g.grpkod)) |->
                           SubOps(g, SubsOf(tree, g.grpkod)[k])]))
  IN  Flatten([k \in 1..Len(tree.groups) |-> GroupOps(tree.groups[k])])

\* the remote calls of that crawl
CrawlCalls(tree, failedSub) ==
  LET GroupCalls(g) ==
        <<"altgrup">> \o
          (IF g.grpkod \in failedSub THEN <<>>
           ELSE [k \in 1..Len(SubsOf(tree, g.grpkod)) |-> "altgrup2"])
  IN  <<"urungruplari">> \o Flatten([k \in 1..Len(tree.groups) |-> GroupCalls(tree.groups[k])])

\* syncCategories inside the try of fullSync / deltaSync: a throw is caught
RunCategories(s, tree, groupsOk, failedSub, failedSub2, writeOk, keep, t) ==
  LET ops == CrawlOps(tree, failedSub, failedSub2, t)
      calls == CrawlCalls(tree, failedSub)
  IN  IF ~groupsOk THEN [s EXCEPT !.pc = "cursor", !.calls = @ \o <<"urungruplari">>]
      ELSE IF ops = <<>> THEN [s EXCEPT !.pc = "cursor", !.calls = @ \o calls]
      ELSE IF writeOk
        THEN [s EXCEPT !.pc = "cursor", !.calls = @ \o calls \o <<"Category.bulkWrite">>,
                       !.categories = CatUpsertAll(@, ops, t),
                       !.categoryResult =
                          [inserted |-> CatUpsertedCount(s.categories, ops),
                           updated |-> CatModifiedCount(s.categories, ops, t)]]
      ELSE [s EXCEPT !.pc = "cursor", !.calls = @ \o calls \o <<"Category.bulkWrite">>,
                     !.categories = CatUpsertAll(@, Pick(ops, keep, 1), t)]

\* the cursor write and the return of a run of mode m
RunFinish(m, s, ok, t) ==
  LET counts == [inserted |-> s.totalInserted, updated |-> s.totalUpdated] IN
  IF ok
    THEN [s EXCEPT !.pc = "done", !.calls = @ \o <<"SyncCursor.updateOne">>,
                   !.cursor = SyncCursorUpdateOne(@, m, t),
                   !.result = [status |-> "returned",
                               summary |-> [mode |-> m, count |-> Len(s.all),
                                            products |-> counts,
                                            categories |-> s.categoryResult]]]
    ELSE RunThrew(s, "cursor", <<"SyncCursor.updateOne">>)

\* the store states the two runs start from: nothing stored, or the store and
\* cursor a full sync of the three-product catalog left one hour earlier
SeededProducts ==
  UpsertAll(<<>>, BatchDocs(<<RowS1, RowS2, RowS3>>, 0, 100, 100, StartOfTime) \o
                  BatchDocs(<<RowS1, RowS2, RowS3>>, BATCH_SIZE, 100, 100, StartOfTime),
            StartOfTime)
TwinStarts ==
  { [products |-> <<>>, cursor |-> <<>>],
    [products |-> SeededProducts, cursor |-> SyncCursorUpdateOne(<<>>, "full", StartOfTime)] }

\* the rate cache at the start: empty, or filled an hour earlier
TwinCaches == {NoRates, [USD |-> TcmbUsd, EUR |-> TcmbEur, lastUpdate |-> StartOfTime]}

\* both runs are at the step `at`
TwinAt(at) == tw.pc = "run" /\ tw.full.pc = at /\ tw.delta.pc = at

\* the same store state, upstream data and rate cache for a fullSync and a deltaSync
TwinStart ==
  /\ tw = NoTwin
  /\ \E st \in TwinStarts, rows \in Catalogs, tree \in {SmallTree, BigTree}, r \in TwinCaches :
       tw' = [pc |-> "run", erpIko |-> rows, erpTree |-> tree, now |-> StartOfTime + 1,
              faults |-> MaxFaults,
              full |-> TwinRun(st.products, <<>>, st.cursor, r),
              delta |-> TwinRun(st.products, <<>>, st.cursor, r)]

TwinOks == IF tw.faults > 0 THEN BOOLEAN ELSE {TRUE}
TwinSpend(t, ok) == [t EXCEPT !.faults = @ - (IF ok THEN 0 ELSE 1)]

TwinFetch ==
  /\ TwinAt("fetch")
  /\ \E ok \in TwinOks, env \in EnvelopesOf(tw.erpIko) :
       tw' = [TwinSpend(tw, ok) EXCEPT !.full = RunFetch(@, ok, env),
                                       !.delta = RunFetch(@, ok, env)]

TwinRates ==
  /\ TwinAt("rates")
  /\ \E oUsd \in TcmbOutcomes, oEur \in TcmbOutcomes :
       tw' = [tw EXCEPT !.full = RunRates(@, oUsd, oEur, tw.now),
                        !.delta = RunRates(@, oUsd, oEur, tw.now)]

TwinBatch ==
  /\ TwinAt("batch")
  /\ \E ok \in TwinOks, keep \in SUBSET (1..BATCH_SIZE) :
       tw' = [TwinSpend(tw, ok) EXCEPT !.full = RunBatch("full", @, ok, keep, tw.now),
                                       !.delta = RunBatch("delta", @, ok, keep, tw.now)]

TwinCategories ==
  /\ TwinAt("categories")
  /\ \E groupsOk \in TwinOks, writeOk \in TwinOks,
        failedSub \in SUBSET {"A"}, failedSub2 \in SUBSET {"A1"}, keep \in SUBSET {1, 2} :
       tw' = [TwinSpend(tw, groupsOk /\ writeOk) EXCEPT
                !.full = RunCategories(@, tw.erpTree, groupsOk, failedSub, failedSub2,
                                       writeOk, keep, tw.now),
                !.delta = RunCategories(@, tw.erpTree, groupsOk, failedSub, failedSub2,
                                        writeOk, keep, tw.now)]

TwinFinish ==
  /\ TwinAt("cursor")
  /\ \E ok \in TwinOks :
       tw' = [TwinSpend(tw, ok) EXCEPT !.full = RunFinish("full", @, ok, tw.now),
                                       !.delta = RunFinish("delta", @, ok, tw.now)]

TwinNext ==
  \/ TwinStart /\ UNCHANGED <<syncVars, soapVars, priceVars, imageVars, overlapVars, rateVars, wrapVars>>
  \/ TwinFetch /\ UNCHANGED <<syncVars, soapVars, priceVars, imageVars, overlapVars, rateVars, wrapVars>>
  \/ TwinRates /\ UNCHANGED <<syncVars, soapVars, priceVars, imageVars, overlapVars, rateVars, wrapVars>>
  \/ TwinBatch /\ UNCHANGED <<syncVars, soapVars, priceVars, imageVars, overlapVars, rateVars, wrapVars>>
  \/ TwinCategories /\ UNCHANGED <<syncVars, soapVars, priceVars, imageVars, overlapVars, rateVars, wrapVars>>
  \/ TwinFinish /\ UNCHANGED <<syncVars, soapVars, priceVars, imageVars, overlapVars, rateVars, wrapVars>>

InitTwin ==
  SyncIdle /\ SoapInit /\ PriceIdle /\ ImageIdle /\ OverlapIdle /\ RateIdle /\ WrapIdle /\ TwinIdle

SpecTwin == InitTwin /\ [][TwinNext]_vars

\* the crawl of syncCategories, step by step, pushes the upserts of CrawlOps
CrawlOpsAgree ==
  CrawlComplete => crawl.categoryOps = CrawlOps(erpTree, hist.failedSub, hist.failedSub2, now)

\* the cursor without its mode label
Unlabelled(c) == [k \in 1..Len(c) |-> [key |-> c[k].key, lastSuccessfulSyncAt |-> c[k].lastSuccessfulSyncAt]]

----------------------------------------------------------------------------
(* The content hash *)

\* the stored values of the fields the hash is said to cover
HashedFields(d) ==
  [stkno |-> d.stkno, stokadi |-> d.stokadi, originalPriceList |-> d.originalPriceList,
   bakiye |-> d.bakiye, grupadi |-> d.grupadi, cinsi |-> d.cinsi]

\* the document upsertProducts builds for another fetched record of the product
OtherDocs == { BuildDoc(i.row, px.usd, px.eur, now) : i \in {j \in PriceInputs : j.row.stkno = px.row.stkno} }

\* C28: the stored hash is determined exactly by the stored stock number, name,
\* 15 original price tiers, balance, category name and currency: two fetched
\* records of one product with the same stored values of these fields get the
\* same hash, and two records with a different stored value of any of them
\* get different hashes.
C28_HashTracksStoredFields ==
  px.pc = "built" =>
     \A d \in OtherDocs :
        (HashedFields(d) = HashedFields(px.doc)) <=> (d.checksum = px.doc.checksum)

\* two records of one product that are stored with the same currency and get
\* different hashes: the code arrives as "usd " in one and as "USD" in the other
C28_SameStoredDifferentHash ==
  /\ px.pc = "built"
  /\ px.row.cinsi = <<"u", "s", "d", " ">>
  /\ \E d \in OtherDocs :
       /\ d.raw.cinsi = USD
       /\ HashedFields(d) = HashedFields(px.doc)
       /\ d.checksum # px.doc.checksum

\* two records of one product that are stored with different balances and get
\* the same hash: the balance arrives under bky, bakiye being absent
C28_DifferentStoredSameHash ==
  /\ px.pc = "built"
  /\ ~px.row.bakiye.def
  /\ \E d \in OtherDocs :
       /\ d.bakiye # px.doc.bakiye
       /\ d.checksum = px.doc.checksum

----------------------------------------------------------------------------
(* The rates of a run *)

\* the positions of the run's call log that hold `call`
CallsOf(call) == {i \in 1..Len(hist.log) : hist.log[i] = call}

\* the batches of the run whose write returned
WrittenBatches ==
  IF hist.productThrew THEN Len(hist.batches) - 1 ELSE Len(hist.batches)

\* the rate requests come before the first batch, and every product of every
\* batch written is stored as converted at the run's two rates (looked at when
\* a batch write has just ended: nothing else writes the Product store)
RatesReadBeforeBatches ==
  /\ \A i \in CallsOf("tcmb"), j \in CallsOf("Product.bulkWrite") : i < j
  /\ pc = "batch" => usdRate > 0 /\ eurRate > 0
  /\ pc \in {"batch", "catGroups", "failed"} =>
       \A b \in 1..WrittenBatches : \A j \in 1..Len(hist.batches[b]) :
          WrittenByThisRun(hist.batches[b][j], all[(b - 1) * BATCH_SIZE + j])

\* C29 as stated: upsertProducts obtains the two rates once per run, before
\* the first batch, with at most one request to the rate source per run, and
\* applies them to every product of every batch.
C29_OneRequestPerRun ==
  mode \in Modes =>
     /\ Cardinality(CallsOf("tcmb")) <= 1
     /\ RatesReadBeforeBatches

\* C29, amended: each of the two rates is looked up once per run, before the
\* first batch; each lookup makes at most one request to the rate source, so a
\* run makes at most two, whatever the number of products; and the two rates
\* are applied to every product of every batch.
C29_RatesReadOncePerRun ==
  mode \in Modes =>
     /\ Cardinality(CallsOf("tcmb")) <= 2
     /\ Len(hist.refreshes) = Cardinality(CallsOf("tcmb"))
     /\ all = <<>> => CallsOf("tcmb") = {}
     /\ RatesReadBeforeBatches

\* a run that made two requests to the rate source and then wrote two batches
C29_Witness ==
  /\ mode \in Modes
  /\ pc = "done"
  /\ Cardinality(CallsOf("tcmb")) = 2
  /\ WrittenBatches = 2

----------------------------------------------------------------------------
(* A run over an empty catalog *)

\* the product fetch of the run at hand came back with no product: ikoStoklist
\* answered, with zero rows
FetchedNothing == mode \in Modes /\ hist.ikoZero

C30_EmptyCatalogRunFails ==
  FetchedNothing =>
     /\ pc = "failed" /\ result = [status |-> "threw", phase |-> "fetch"]
     /\ hist.log = <<"ikoStoklist">>
     /\ cursor = hist.cursorAtStart
     /\ products = hist.storeAtStart

\* upsertProducts is never handed an empty list by a run
C30_EmptyListNeverUpserted ==
  (mode \in Modes /\ pc \notin {"idle", "fetch", "failed"}) => all # <<>>

====
